---- MODULE Spec2Model ----
(***************************************************************************)
(* A model of geckolibs: the Gecko command codec (geckocode.py) and the    *)
(* codelist container (gct.py).                                            *)
(*                                                                         *)
(* Representation.  A Python bytes object is a sequence of 0..255.  A      *)
(* Python int that is known to stay below 2^31 (addresses, repeats,        *)
(* sizes) is an integer; a 32-bit quantity (a command's value, an image    *)
(* address with the 0x80000000 bit) is held as its four big-endian bytes,  *)
(* because the model checker's integers are 32-bit signed.                 *)
(***************************************************************************)
EXTENDS Integers, Sequences, FiniteSets, TLC

VARIABLES
    scn,      \* the entry point this run exercises: "binary", "apply",
              \* "construct", "decode", "build", "text"
    input,    \* the bytes handed to from_bytes, the str handed to from_text
    pos,      \* f.tell(): the cursor of the binary stream
    pc,       \* position of the running call
    code,     \* the GeckoCode being decoded
    codes,    \* GeckoCodeTable._codes, in insertion order
    out,      \* what the encoder returned: [exc, bytes]
    TmpNameCounter,  \* GeckoCode._TmpNameCounter
    mapped,   \* the image: the addresses for which dol.is_mapped answers True
    dol,      \* the image: the calls made on it, in order
    status,   \* GeckoCodeTable.apply: status
    cstatus,  \* GeckoCode.apply: status
    iterpos,  \* GeckoCodeTable._iterpos of the running "for code in self"
    ki,       \* GeckoCode.apply: index of the command being applied
    counter,  \* Write8.apply / Write16.apply: counter
    base,     \* len of the call log when the current command's apply began
    ret,      \* what the last completed command.apply returned
    command,  \* a GeckoCommand built by a constructor or by the decoder
    command2, \* the GeckoCommand decoded from the encoding of command
    mode,     \* GeckoCodeTable.from_text: mode, what detect_codelist_type returned
    flavour,  \* as_codelist: ty, the flavour asked for
    gameID,   \* GeckoCodeTable.gameID
    gameName, \* GeckoCodeTable.gameName
    threads,  \* the threads running "for code in table": each one's position,
              \* the value it loaded for "self._iterpos += 1", what it was yielded
    stdout,   \* sys.stdout: the strings print() wrote to it, in order
    buffer,   \* the TextIO handed to print_map: the strings written to it
    IndentionWidth,  \* GeckoCommand._IndentionWidth
    IndentionStart,  \* GeckoCommand._IndentionStart
    indentArg,       \* print_map: indent, the width asked for
    heldNames \* history: the names added to the table and not removed since

ioVars == <<input, pos, out>>

tblVars == <<code, codes, TmpNameCounter>>

applyVars == <<dol, status, cstatus, iterpos, ki, counter, base, ret>>

cmdVars == <<command, command2>>

txtVars == <<mode, flavour, gameID, gameName>>

mapVars == <<stdout, buffer, IndentionWidth, IndentionStart, indentArg>>

runVars == <<threads, mapVars, heldNames>>

vars == <<scn, pc, ioVars, tblVars, mapped, applyVars, cmdVars, txtVars, runVars>>

\* ------------------------------------------------------------------------
\* Bounds of the model
\* ------------------------------------------------------------------------

\* number of catalogue commands in a generated binary input
MaxCmds == 2

\* number of iterations of the decode loop explored beyond the commands of
\* the input (the loop has no exit of its own at end of data)
MaxExtra == 2

\* cap on the commands a decode loop collects in the explored runs
MaxCommands == 2 * MaxCmds + MaxExtra

\* largest repeat count of a constructed write command
MaxRepeat == 2

\* ------------------------------------------------------------------------
\* Integers and bytes
\* ------------------------------------------------------------------------

Min(a, b) == IF a < b THEN a ELSE b

Max(a, b) == IF a > b THEN a ELSE b

RECURSIVE BitAnd(_, _)
\* a & b on non-negative integers
BitAnd(a, b) ==
    IF a = 0 \/ b = 0 THEN 0
    ELSE (IF a % 2 = 1 /\ b % 2 = 1 THEN 1 ELSE 0) + 2 * BitAnd(a \div 2, b \div 2)

RECURSIVE BitOr(_, _)
\* a | b on non-negative integers
BitOr(a, b) ==
    IF a = 0 THEN b
    ELSE IF b = 0 THEN a
    ELSE (IF a % 2 = 1 \/ b % 2 = 1 THEN 1 ELSE 0) + 2 * BitOr(a \div 2, b \div 2)

\* s[a:b] of Python, 0-based, for 0 <= a
Slice(s, a, b) == SubSeq(s, a + 1, Min(b, Len(s)))

\* s[a:] of Python
SliceFrom(s, a) == SubSeq(s, a + 1, Len(s))

\* f.read(n): the bytes from the cursor, at most n, fewer at end of data
Read(data, p, n) == SubSeq(data, p + 1, Min(p + n, Len(data)))

\* f.tell() after f.read(n)
Advance(data, p, n) == Max(p, Min(p + n, Len(data)))

\* the four big-endian bytes of int.from_bytes(b, "big") for len(b) <= 4
Pad4(b) == [i \in 1..4 |-> IF i + Len(b) - 4 >= 1 THEN b[i + Len(b) - 4] ELSE 0]

RECURSIVE int_from_bytes(_)
\* int.from_bytes(b, "big", signed=False), for values below 2^31
int_from_bytes(b) ==
    IF Len(b) = 0 THEN 0
    ELSE 256 * int_from_bytes(SubSeq(b, 1, Len(b) - 1)) + b[Len(b)]

\* n.to_bytes(4, "big") for 0 <= n < 2^31
Word(n) == << (n \div 16777216) % 256, (n \div 65536) % 256, (n \div 256) % 256, n % 256 >>

\* a byte count held in four bytes, as an integer; every count of 65536 or
\* more behaves as 65536 (no modelled stream is that long)
SizeOf(w) == IF w[1] # 0 \/ w[2] # 0 THEN 65536 ELSE w[3] * 256 + w[4]

\* the low 25 bits of a metadata word: int(metadata) & 0x1FFFFFF
AddressOf(w) == (w[1] % 2) * 16777216 + w[2] * 65536 + w[3] * 256 + w[4]

RECURSIVE Zeros(_)
Zeros(n) == IF n <= 0 THEN <<>> ELSE <<0>> \o Zeros(n - 1)

\* _align_bytes(_bytes, alignment, fill=b"\x00")
align_bytes(b, alignment) ==
    LET diff == alignment - (Len(b) % alignment)
    IN  IF diff = alignment THEN b ELSE b \o Zeros(diff)

\* ------------------------------------------------------------------------
\* GeckoCommand.Type and the classification of kinds
\* ------------------------------------------------------------------------

\* class Type(Enum): value -> member name
Type ==
    { <<\h00, "WRITE_8">>, <<\h02, "WRITE_16">>, <<\h04, "WRITE_32">>,
      <<\h06, "WRITE_STR">>, <<\h08, "WRITE_SERIAL">>,
      <<\h20, "IF_EQ_32">>, <<\h22, "IF_NEQ_32">>, <<\h24, "IF_GT_32">>,
      <<\h26, "IF_LT_32">>, <<\h28, "IF_EQ_16">>, <<\h2A, "IF_NEQ_16">>,
      <<\h2C, "IF_GT_16">>, <<\h2E, "IF_LT_16">>,
      <<\h40, "BASE_ADDR_LOAD">>, <<\h42, "BASE_ADDR_SET">>,
      <<\h44, "BASE_ADDR_STORE">>, <<\h46, "BASE_GET_NEXT">>,
      <<\h48, "PTR_ADDR_LOAD">>, <<\h4A, "PTR_ADDR_SET">>,
      <<\h4C, "PTR_ADDR_STORE">>, <<\h4E, "PTR_GET_NEXT">>,
      <<\h60, "REPEAT_SET">>, <<\h62, "REPEAT_EXEC">>, <<\h64, "RETURN">>,
      <<\h66, "GOTO">>, <<\h68, "GOSUB">>,
      <<\h80, "GECKO_REG_SET">>, <<\h82, "GECKO_REG_LOAD">>,
      <<\h84, "GECKO_REG_STORE">>, <<\h86, "GECKO_REG_OPERATE_I">>,
      <<\h88, "GECKO_REG_OPERATE">>, <<\h8A, "MEMCPY_1">>, <<\h8C, "MEMCPY_2">>,
      <<\hA0, "GECKO_IF_EQ_16">>, <<\hA2, "GECKO_IF_NEQ_16">>,
      <<\hA4, "GECKO_IF_GT_16">>, <<\hA6, "GECKO_IF_LT_16">>,
      <<\hA8, "COUNTER_IF_EQ_16">>, <<\hAA, "COUNTER_IF_NEQ_16">>,
      <<\hAC, "COUNTER_IF_GT_16">>, <<\hAE, "COUNTER_IF_LT_16">>,
      <<\hC0, "ASM_EXECUTE">>, <<\hC2, "ASM_INSERT">>, <<\hC4, "ASM_INSERT_L">>,
      <<\hC6, "WRITE_BRANCH">>, <<\hCC, "SWITCH">>, <<\hCE, "ADDR_RANGE_CHECK">>,
      <<\hE0, "TERMINATOR">>, <<\hE2, "ENDIF">>, <<\hF0, "EXIT">>,
      <<\hF2, "ASM_INSERT_XOR">>, <<\hF6, "BRAINSLUG_SEARCH">> }

\* GeckoCommand.Type(v): the member with value v, ValueError when there is none
TypeOfValue(v) ==
    IF \E t \in Type : t[1] = v
    THEN (CHOOSE t \in Type : t[1] = v)[2]
    ELSE "ValueError"

\* GeckoCommand.type_to_int(ty)
type_to_int(ty) == (CHOOSE t \in Type : t[2] = ty)[1]

\* GeckoCommand.int_to_type(id)
int_to_type(id) ==
    LET i == BitAnd(id, \hFE)
    IN  IF i = \hF4 THEN "ASM_INSERT_XOR"
        ELSE IF i >= \hF0 THEN TypeOfValue(BitAnd(i, \hFE))
        ELSE TypeOfValue(BitAnd(i, \hEE))

\* GeckoCommand.is_ifblock
is_ifblock(ty) ==
    ty \in { "IF_EQ_32", "IF_NEQ_32", "IF_GT_32", "IF_LT_32",
             "IF_EQ_16", "IF_NEQ_16", "IF_GT_16", "IF_LT_16",
             "GECKO_IF_EQ_16", "GECKO_IF_NEQ_16", "GECKO_IF_GT_16", "GECKO_IF_LT_16",
             "COUNTER_IF_EQ_16", "COUNTER_IF_NEQ_16", "COUNTER_IF_GT_16",
             "COUNTER_IF_LT_16", "BRAINSLUG_SEARCH" }

\* GeckoCommand.is_multiline
is_multiline(ty) ==
    ty \in { "WRITE_STR", "WRITE_SERIAL", "ASM_EXECUTE", "ASM_INSERT",
             "ASM_INSERT_L", "ASM_INSERT_XOR", "BRAINSLUG_SEARCH" }

\* GeckoCommand.can_preprocess
can_preprocess(ty) ==
    ty \in { "WRITE_8", "WRITE_16", "WRITE_32", "WRITE_STR", "WRITE_SERIAL",
             "WRITE_BRANCH" }

\* ------------------------------------------------------------------------
\* Command objects.  Every command is a record with the same fields; a
\* field a class does not have keeps the default below.
\* ------------------------------------------------------------------------

NoCommand ==
    [ kind |-> "NONE", value |-> <<>>, address |-> 0, repeat |-> 0,
      isPointer |-> FALSE, endif |-> FALSE, mask |-> 0, valueSize |-> 0,
      addressInc |-> 0, valueInc |-> <<>>, searchRange |-> <<>>, children |-> <<>> ]

\* Write8.__init__(value, address, repeat, isPointer); value is the int given
Write8(value, address, repeat, isPointer) ==
    [ NoCommand EXCEPT !.kind = "WRITE_8",
                       !.value = << value % 256 >>,
                       !.address = address % 33554432,
                       !.repeat = repeat,
                       !.isPointer = isPointer ]

\* Write16.__init__(value, address, repeat, isPointer)
Write16(value, address, repeat, isPointer) ==
    [ NoCommand EXCEPT !.kind = "WRITE_16",
                       !.value = << (value \div 256) % 256, value % 256 >>,
                       !.address = address % 33554432,
                       !.repeat = repeat,
                       !.isPointer = isPointer ]

\* Write32.__init__(value, address, isPointer); value as its four bytes
Write32(value, address, isPointer) ==
    [ NoCommand EXCEPT !.kind = "WRITE_32",
                       !.value = value,
                       !.address = address % 33554432,
                       !.isPointer = isPointer ]

\* WriteString.__init__(value, address, isPointer)
WriteString(value, address, isPointer) ==
    [ NoCommand EXCEPT !.kind = "WRITE_STR",
                       !.value = value,
                       !.address = address % 33554432,
                       !.isPointer = isPointer ]

\* WriteSerial.__init__(value, repeat, address, isPointer, valueSize, addrInc, valueInc)
WriteSerial(value, repeat, address, isPointer, valueSize, addrInc, valueInc) ==
    [ NoCommand EXCEPT !.kind = "WRITE_SERIAL",
                       !.value = value,
                       !.valueInc = valueInc,
                       !.valueSize = valueSize,
                       !.address = address % 33554432,
                       !.addressInc = addrInc,
                       !.repeat = repeat,
                       !.isPointer = isPointer ]

\* the four classes IfEqual32, IfNotEqual32, IfGreaterThan32, IfLesserThan32
\* have the same body and differ in codetype only; so do the four *16 classes
If32Kinds == { "IF_EQ_32", "IF_NEQ_32", "IF_GT_32", "IF_LT_32" }

If16Kinds == { "IF_EQ_16", "IF_NEQ_16", "IF_GT_16", "IF_LT_16" }

\* IfEqual32.__init__(value, address, isPointer, endif), and its three siblings
IfEqual32(kind, value, address, isPointer, endif) ==
    [ NoCommand EXCEPT !.kind = kind,
                       !.value = value,
                       !.address = (address - (address % 2)) % 33554432,
                       !.endif = endif,
                       !.isPointer = isPointer ]

\* IfEqual16.__init__(value, address, isPointer, endif, mask), and its siblings
IfEqual16(kind, value, address, isPointer, endif, mask) ==
    [ NoCommand EXCEPT !.kind = kind,
                       !.value = << (value \div 256) % 256, value % 256 >>,
                       !.address = (address - (address % 2)) % 33554432,
                       !.endif = endif,
                       !.mask = mask,
                       !.isPointer = isPointer ]

\* WriteBranch.__init__(value, address, isPointer)
WriteBranch(value, address, isPointer) ==
    [ NoCommand EXCEPT !.kind = "WRITE_BRANCH",
                       !.value = value,
                       !.address = address % 33554432,
                       !.isPointer = isPointer ]

\* what a constructor call gives: the object, or the exception it raises
Constructed(cmd) == [ exc |-> "", cmd |-> cmd ]

NotConstructed(exc) == [ exc |-> exc, cmd |-> NoCommand ]

\* AsmInsert.__init__(value, address, isPointer); the field value holds _value
AsmInsert(value, address, isPointer) ==
    [ NoCommand EXCEPT !.kind = "ASM_INSERT",
                       !.value = value,
                       !.address = address % 33554432,
                       !.isPointer = isPointer ]

\* AsmInsertLink.__init__(value, address, isPointer): "self.value = value" runs
\* the value setter, which reads len(self._value) and never assigns _value;
\* on a new object the attribute does not exist
AsmInsertLink(value, address, isPointer) == NotConstructed("AttributeError")

\* AsmInsertXOR.__init__(value, address, isPointer, mask, xorCount): the same
\* value setter as AsmInsertLink
AsmInsertXOR(value, address, isPointer, mask, xorCount) == NotConstructed("AttributeError")

\* BrainslugSearch.__init__(value, address, searchRange)
BrainslugSearch(value, address, searchRange) ==
    [ NoCommand EXCEPT !.kind = "BRAINSLUG_SEARCH",
                       !.value = value,
                       !.address = address % 33554432,
                       !.searchRange = searchRange ]

\* Terminator.__init__(value)
Terminator(value) == [ NoCommand EXCEPT !.kind = "TERMINATOR", !.value = value ]

\* Exit.__init__()
Exit == [ NoCommand EXCEPT !.kind = "EXIT" ]

\* Switch()
Switch == [ NoCommand EXCEPT !.kind = "SWITCH" ]

\* IfEqual32.add_child(child, index=-1)
add_child(cmd, child) == [ cmd EXCEPT !.children = Append(@, child) ]

\* list.insert(index, x) for 0 <= index: an index past the end appends
insert(list, index, x) ==
    SubSeq(list, 1, Min(index, Len(list))) \o << x >>
    \o SubSeq(list, Min(index, Len(list)) + 1, Len(list))

\* IfEqual32.add_child(child, index), BrainslugSearch.add_child(child, index)
add_child_at(cmd, child, index) ==
    IF index < 0 THEN [ cmd EXCEPT !.children = Append(@, child) ]
    ELSE [ cmd EXCEPT !.children = insert(@, index, child) ]

\* ------------------------------------------------------------------------
\* Binary decoder: GeckoCommand.bytes_to_geckocommand(f)
\* A call returns [exc, cmd, pos]: the exception raised ("" for none), the
\* command returned and f.tell() afterwards.
\* ------------------------------------------------------------------------

Returned(cmd, p) == [ exc |-> "", cmd |-> cmd, pos |-> p ]

Raised(exc, p) == [ exc |-> exc, cmd |-> NoCommand, pos |-> p ]

RECURSIVE bytes_to_geckocommand(_, _)
RECURSIVE add_children_till_terminator(_, _, _)

\* the nested helper of bytes_to_geckocommand: returns [exc, cmd, pos]
add_children_till_terminator(cmd, data, p) ==
    IF p < Len(data)
    THEN LET child == bytes_to_geckocommand(data, p)
         IN  IF child.exc # "" THEN Raised(child.exc, child.pos)
             ELSE IF child.cmd.kind \in { "TERMINATOR", "EXIT" }
             THEN \* f.seek(-8, 1)
                  IF child.pos - 8 < 0 THEN Raised("ValueError", child.pos)
                  ELSE Returned(cmd, child.pos - 8)
             ELSE add_children_till_terminator(add_child(cmd, child.cmd), data, child.pos)
    ELSE Returned(cmd, p)

bytes_to_geckocommand(data, p) ==
    LET metadata == Read(data, p, 4)
        p4 == Advance(data, p, 4)
        m == Pad4(metadata)
        address == AddressOf(m)
        codetype == int_to_type(BitAnd(m[1], \hFE))
        isPointerType == BitAnd(m[1], \h10) # 0
        info == Read(data, p4, 4)
        p8 == Advance(data, p4, 4)
    IN  CASE codetype = "ValueError" -> Raised("ValueError", p4)
          [] codetype = "WRITE_8" ->
                LET value == int_from_bytes(SliceFrom(info, 3))
                    repeat == int_from_bytes(Slice(info, 0, 2))
                IN  Returned(Write8(value, repeat, address, isPointerType), p8)
          [] codetype = "WRITE_16" ->
                LET value == int_from_bytes(SliceFrom(info, 2))
                    repeat == int_from_bytes(Slice(info, 0, 2))
                IN  Returned(Write16(value, repeat, address, isPointerType), p8)
          [] codetype = "WRITE_32" ->
                Returned(Write32(Pad4(info), address, isPointerType), p8)
          [] codetype = "WRITE_STR" ->
                LET size == SizeOf(Pad4(info))
                IN  Returned(WriteString(Read(data, p8, size), address, isPointerType),
                             Advance(data, p8, size))
          [] codetype = "WRITE_SERIAL" ->
                LET info12 == Read(data, p4, 12)
                    value == Pad4(Slice(info12, 0, 4))
                    valueSize == int_from_bytes(Slice(info12, 4, 5)) \div 16
                    repeat == int_from_bytes(Slice(info12, 4, 5)) % 16
                    addressInc == int_from_bytes(Slice(info12, 6, 8))
                    valueInc == Pad4(SliceFrom(info12, 8))
                IN  Returned(WriteSerial(value, repeat, address, isPointerType,
                                         valueSize, addressInc, valueInc),
                             Advance(data, p4, 12))
          [] codetype \in If32Kinds ->
                \* IfEqual32(value, address, endif=(address & 1) == 1)
                add_children_till_terminator(
                    IfEqual32(codetype, Pad4(info), address, FALSE, address % 2 = 1),
                    data, p8)
          [] codetype \in If16Kinds ->
                \* IfEqual16(value, address, endif=(address & 1) == 1, mask=mask)
                LET value == int_from_bytes(SliceFrom(Pad4(info), 2))
                    mask == int_from_bytes(Slice(Pad4(info), 0, 2))
                IN  add_children_till_terminator(
                        IfEqual16(codetype, value, address, FALSE, address % 2 = 1, mask),
                        data, p8)
          [] codetype = "ASM_INSERT" ->
                LET size == SizeOf(Pad4(info))
                IN  Returned(AsmInsert(Read(data, p8, size * 8), address, isPointerType),
                             Advance(data, p8, size * 8))
          [] codetype = "ASM_INSERT_L" ->
                LET size == SizeOf(Pad4(info))
                IN  Raised(AsmInsertLink(Read(data, p8, size * 8), address,
                                         isPointerType).exc,
                           Advance(data, p8, size * 8))
          [] codetype = "WRITE_BRANCH" ->
                Returned(WriteBranch(Pad4(info), address, isPointerType), p8)
          [] codetype = "SWITCH" ->
                \* "return Switch()": only the metadata was read
                Returned(Switch, p4)
          [] codetype = "TERMINATOR" ->
                Returned(Terminator(Pad4(info)), p8)
          [] codetype = "EXIT" ->
                \* f.seek(4, 1): a BytesIO cursor may pass the end of data
                Returned(Exit, p4 + 4)
          [] codetype = "ASM_INSERT_XOR" ->
                \* size = info & 0xFF, xor = info & 0x00FFFF00, num = info & 0xFF000000,
                \* pointer = codetype.value == 0xF4
                LET size == Pad4(info)[4]
                IN  Raised(AsmInsertXOR(Read(data, p8, size * 8), address, FALSE,
                                        Pad4(info)[2] * 256 + Pad4(info)[3],
                                        Pad4(info)[1]).exc,
                           Advance(data, p8, size * 8))
          [] codetype = "BRAINSLUG_SEARCH" ->
                \* size = metadata & 0xFF; searchRange = [value >> 16, value & 0xFFFF]
                LET size == m[4]
                    value == Pad4(info)
                IN  add_children_till_terminator(
                        BrainslugSearch(Read(data, p8, size * 8), address,
                                        << value[1] * 256 + value[2],
                                           value[3] * 256 + value[4] >>),
                        data, Advance(data, p8, size * 8))
          [] OTHER -> Raised("NotModelled", p4)

\* ------------------------------------------------------------------------
\* Binary encoder: as_bytes of each class.  A call returns [exc, bytes].
\* ------------------------------------------------------------------------

Bytes(b) == [ exc |-> "", bytes |-> b ]

Failed(exc) == [ exc |-> exc, bytes |-> <<>> ]

\* intType = type_to_int(codetype) | (0x10 if isPointer else 0)
intTypeOf(cmd) == BitOr(type_to_int(cmd.kind), IF cmd.isPointer THEN \h10 ELSE 0)

\* ((intType << 24) | a).to_bytes(4, "big") for a below 2^25
Metadata(intType, a) ==
    << BitOr(intType, a \div 16777216), (a \div 65536) % 256, (a \div 256) % 256, a % 256 >>

\* ((hi << 16) | lo).to_bytes(4, "big") for lo below 2^16: OverflowError
\* when the result needs more than 32 bits
HiLo(hi, lo) ==
    IF hi >= 65536 THEN Failed("OverflowError")
    ELSE Bytes(<< hi \div 256, hi % 256, lo \div 256, lo % 256 >>)

\* Write8.as_bytes
Write8_as_bytes(cmd) ==
    LET metadata == Metadata(intTypeOf(cmd), BitAnd(cmd.address, \h1FFFFFF))
        info == HiLo(cmd.repeat, int_from_bytes(cmd.value))
    IN  IF info.exc # "" THEN info ELSE Bytes(metadata \o info.bytes)

\* Write16.as_bytes
Write16_as_bytes(cmd) ==
    LET metadata == Metadata(intTypeOf(cmd), BitAnd(cmd.address, \h1FFFFFE))
        info == HiLo(cmd.repeat, int_from_bytes(cmd.value))
    IN  IF info.exc # "" THEN info ELSE Bytes(metadata \o info.bytes)

\* a Write32.as_bytes that emits the stored address masked as the constructor
\* masks it (0x1FFFFFF), not with 0x1FFFFFC
Write32_as_bytes_unaligned(cmd) ==
    Bytes(Metadata(intTypeOf(cmd), BitAnd(cmd.address, \h1FFFFFF)) \o cmd.value)

\* Write32.as_bytes
Write32_as_bytes(cmd) ==
    Bytes(Metadata(intTypeOf(cmd), BitAnd(cmd.address, \h1FFFFFC)) \o cmd.value)

\* WriteString.as_bytes
WriteString_as_bytes(cmd) ==
    Bytes(Metadata(intTypeOf(cmd), BitAnd(cmd.address, \h1FFFFFF))
          \o Word(Len(cmd.value)) \o align_bytes(cmd.value, 8))

\* WriteSerial.as_bytes
WriteSerial_as_bytes(cmd) ==
    LET metadata == Metadata(intTypeOf(cmd), BitAnd(cmd.address, \h1FFFFFF))
        \* subinfo = (valueSize << 28) | (repeat << 16) | addressInc
        subinfo == HiLo(BitOr(cmd.valueSize * 4096,
                              BitOr(cmd.repeat, cmd.addressInc \div 65536)),
                        cmd.addressInc % 65536)
    IN  IF subinfo.exc # "" THEN subinfo
        ELSE Bytes(metadata \o cmd.value \o subinfo.bytes \o cmd.valueInc)

\* WriteBranch.as_bytes
WriteBranch_as_bytes(cmd) ==
    Bytes(Metadata(intTypeOf(cmd), BitAnd(cmd.address, \h1FFFFFC)) \o cmd.value)

\* AsmInsert.value: the property appends a nop to a blob whose length is a
\* positive multiple of 8
AsmInsert_value(cmd) ==
    IF Len(cmd.value) % 8 = 0 /\ Len(cmd.value) # 0
    THEN cmd.value \o << \h60, 0, 0, 0 >>
    ELSE cmd.value

\* AsmInsert.virtual_length: ((len(self) + 7) & -0x8) >> 3, len(self) = 8 + len(self.value)
AsmInsert_virtual_length(cmd) == (8 + Len(AsmInsert_value(cmd)) + 7) \div 8

\* AsmInsert.as_bytes
AsmInsert_as_bytes(cmd) ==
    Bytes(Metadata(intTypeOf(cmd), BitAnd(cmd.address, \h1FFFFFC))
          \o Word(AsmInsert_virtual_length(cmd) - 1)
          \o align_bytes(AsmInsert_value(cmd), 8))

\* BrainslugSearch.as_bytes: header, search range, pattern; the children are
\* not part of what it returns
BrainslugSearch_as_bytes(cmd) ==
    LET metadata == Metadata(type_to_int(cmd.kind), (Len(cmd.value) + 7) \div 8)
        info == HiLo(cmd.searchRange[1], cmd.searchRange[2])
    IN  IF info.exc # "" THEN info
        ELSE Bytes(metadata \o info.bytes \o align_bytes(cmd.value, 8))

\* Terminator.as_bytes
Terminator_as_bytes(cmd) == Bytes(<< \hE0, 0, 0, 0 >> \o cmd.value)

\* Exit.as_bytes
Exit_as_bytes == Bytes(<< \hF0, 0, 0, 0, 0, 0, 0, 0 >>)

\* Switch.as_bytes
Switch_as_bytes == Bytes(<< \hCC, 0, 0, 0, 0, 0, 0, 0 >>)

RECURSIVE as_bytes(_)
RECURSIVE concat_as_bytes(_, _)

\* body = b""; for code in commands: body += code.as_bytes()
concat_as_bytes(commands, acc) ==
    IF commands = <<>> THEN Bytes(acc)
    ELSE LET b == as_bytes(Head(commands))
         IN  IF b.exc # "" THEN b
             ELSE concat_as_bytes(Tail(commands), acc \o b.bytes)

\* IfEqual32.as_bytes
IfEqual32_as_bytes(cmd) ==
    LET metadata == Metadata(intTypeOf(cmd),
                             BitOr(BitAnd(cmd.address, \h1FFFFFC),
                                   IF cmd.endif THEN 1 ELSE 0))
        body == concat_as_bytes(cmd.children, <<>>)
    IN  IF body.exc # "" THEN body
        ELSE Bytes(metadata \o cmd.value \o body.bytes)

\* IfEqual16.as_bytes
IfEqual16_as_bytes(cmd) ==
    LET metadata == Metadata(intTypeOf(cmd),
                             BitOr(BitAnd(cmd.address, \h1FFFFFE),
                                   IF cmd.endif THEN 1 ELSE 0))
        info == HiLo(cmd.mask, int_from_bytes(cmd.value))
        body == concat_as_bytes(cmd.children, <<>>)
    IN  IF body.exc # "" THEN body
        ELSE IF info.exc # "" THEN info
        ELSE Bytes(metadata \o info.bytes \o body.bytes)

\* command.as_bytes(), dispatched on the class of the command
as_bytes(cmd) ==
    CASE cmd.kind = "WRITE_8" -> Write8_as_bytes(cmd)
      [] cmd.kind = "WRITE_16" -> Write16_as_bytes(cmd)
      [] cmd.kind = "WRITE_32" -> Write32_as_bytes(cmd)
      [] cmd.kind = "WRITE_STR" -> WriteString_as_bytes(cmd)
      [] cmd.kind = "WRITE_SERIAL" -> WriteSerial_as_bytes(cmd)
      [] cmd.kind \in If32Kinds -> IfEqual32_as_bytes(cmd)
      [] cmd.kind \in If16Kinds -> IfEqual16_as_bytes(cmd)
      [] cmd.kind = "ASM_INSERT" -> AsmInsert_as_bytes(cmd)
      [] cmd.kind = "WRITE_BRANCH" -> WriteBranch_as_bytes(cmd)
      [] cmd.kind = "BRAINSLUG_SEARCH" -> BrainslugSearch_as_bytes(cmd)
      [] cmd.kind = "TERMINATOR" -> Terminator_as_bytes(cmd)
      [] cmd.kind = "EXIT" -> Exit_as_bytes
      [] cmd.kind = "SWITCH" -> Switch_as_bytes
      [] OTHER -> Failed("NotModelled")

\* command.virtual_length(): the length in Gecko "lines"
virtual_length(cmd) ==
    CASE cmd.kind \in { "WRITE_8", "WRITE_16", "WRITE_32", "WRITE_BRANCH",
                        "SWITCH", "TERMINATOR", "EXIT" } -> 1
      [] cmd.kind = "WRITE_STR" -> (8 + Len(cmd.value) + 7) \div 8
      [] cmd.kind = "WRITE_SERIAL" -> 2
      [] cmd.kind \in If32Kinds \cup If16Kinds \cup { "BRAINSLUG_SEARCH" } ->
            Len(cmd.children) + 1
      [] cmd.kind = "ASM_INSERT" -> AsmInsert_virtual_length(cmd)
      [] OTHER -> 0

\* GeckoCode.as_bytes
GeckoCode_as_bytes(c) == concat_as_bytes(c.commands, <<>>)

\* ------------------------------------------------------------------------
\* GeckoCode and GeckoCodeTable
\* ------------------------------------------------------------------------

\* str(n) for 0 <= n < 100, as a sequence of characters
Digits == << "0", "1", "2", "3", "4", "5", "6", "7", "8", "9" >>

DecimalStr(n) ==
    IF n < 10 THEN << Digits[n + 1] >>
    ELSE << Digits[((n \div 10) % 10) + 1], Digits[(n % 10) + 1] >>

\* f"GeckoCode {GeckoCode._TmpNameCounter}"
TmpName(n) == << "G", "e", "c", "k", "o", "C", "o", "d", "e", " " >> \o DecimalStr(n)

\* GeckoCode.__init__(name, author, desc, commands=None, enabled=True);
\* author and desc are None when not given
None == << "None" >>

GeckoCode(name, author, desc, enabled) ==
    [ name |-> name, author |-> author, desc |-> desc, enabled |-> enabled,
      commands |-> <<>> ]

\* GeckoCode.add_child(command)
GeckoCode_add_child(c, child) == [ c EXCEPT !.commands = Append(@, child) ]

\* GeckoCodeTable.Magic
Magic == << \h00, \hD0, \hC0, \hDE, \h00, \hD0, \hC0, \hDE >>

\* a table that keeps its codes in a list: add_child appends
GeckoCodeTable_add_child_append(table, c) == Append(table, c)

\* GeckoCodeTable.add_child(code): self._codes[code.name] = code; a dict
\* keeps the position of a key it already holds
GeckoCodeTable_add_child(table, c) ==
    IF \E i \in 1..Len(table) : table[i].name = c.name
    THEN [ i \in 1..Len(table) |-> IF table[i].name = c.name THEN c ELSE table[i] ]
    ELSE Append(table, c)

\* GeckoCodeTable.remove_child(code): self._codes.pop(name), KeyError when the
\* table holds no such name; returns [exc, table]
GeckoCodeTable_remove_child(table, name) ==
    IF \E i \in 1..Len(table) : table[i].name = name
    THEN [ exc |-> "", table |-> SelectSeq(table, LAMBDA c : c.name # name) ]
    ELSE [ exc |-> "KeyError", table |-> table ]

\* GeckoCodeTable.as_bytes
GeckoCodeTable_as_bytes(table) ==
    LET RECURSIVE packet(_, _)
        packet(i, acc) ==
            IF i > Len(table) THEN Bytes(acc)
            ELSE LET b == GeckoCode_as_bytes(table[i])
                 IN  IF b.exc # "" THEN b ELSE packet(i + 1, acc \o b.bytes)
        body == packet(1, <<>>)
    IN  IF body.exc # "" THEN body
        ELSE Bytes(Magic \o body.bytes \o << \hF0, 0, 0, 0, 0, 0, 0, 0 >>)

\* ------------------------------------------------------------------------
\* Inputs of the binary entry points
\* ------------------------------------------------------------------------

ExitLine == << \hF0, 0, 0, 0, 0, 0, 0, 0 >>

\* encodings that conform to the taxonomy (aligned addresses, no reserved bit)
WellFormedCommands ==
    { << \h00, 0, 0, 0, 0, 0, 0, 0 >>,                     \* WRITE_8 of 0 at 0
      << \h00, 0, 0, \h10, 0, 0, 0, \hFF >>,               \* WRITE_8
      << \h00, \h12, \h34, \h56, 0, 2, 0, \h7F >>,         \* WRITE_8, repeat 2
      << \h02, 0, 0, \h10, 0, 3, \h12, \h34 >>,            \* WRITE_16, repeat 3
      << \h04, \h12, \h34, \h54, \hDE, \hAD, \hBE, \hEF >>, \* WRITE_32
      << \h04, 0, \h10, 0, \h12, \h34, \h56, \h78 >>,      \* WRITE_32 at 0x1000
      << \h14, 0, \h10, 0, \h12, \h34, \h56, \h78 >>,      \* WRITE_32, pointer
      << \h06, 0, 0, \h10, 0, 0, 0, 5,
         \h48, \h45, \h4C, \h4C, \h4F, 0, 0, 0 >>,         \* WRITE_STR "HELLO"
      << \h06, 0, 0, \h10, 0, 0, 0, 8,
         \h48, \h45, \h4C, \h4C, \h4F, \h21, \h21, \h21 >>, \* WRITE_STR, 8 bytes
      << \h08, 0, 0, \h10, 0, 0, 0, 1,
         \h20, 3, 0, 4, 0, 0, 0, 1 >>,                     \* WRITE_SERIAL, repeat 3
      << \h20, 0, \h30, 0, 0, 0, 0, 1,
         \h04, 0, \h10, 0, \h12, \h34, \h56, \h78,
         \hE0, 0, 0, 0, \h80, 0, \h80, 0 >>,               \* IF_EQ_32 { WRITE_32 } TERMINATOR
      << \hC6, 0, 0, \h10, \h80, 0, \h12, \h34 >>,         \* WRITE_BRANCH
      << \hE0, 0, 0, 0, \h80, 0, \h80, 0 >> }              \* TERMINATOR

TerminatorLine == << \hE0, 0, 0, 0, \h80, 0, \h80, 0 >>

IfLine == << \h20, 0, \h30, 0, 0, 0, 0, 1 >>

Write32Line == << \h04, 0, \h10, 0, \h12, \h34, \h56, \h78 >>

\* blocks whose children are a two-line command, a padded string, a block;
\* a block that an EXIT line ends
BlockCommands ==
    { IfLine \o << \h08, 0, 0, \h10, 0, 0, 0, 1, \h20, 3, 0, 4, 0, 0, 0, 1 >>
        \o TerminatorLine,                                 \* IF { WRITE_SERIAL }
      IfLine \o << \h06, 0, 0, \h10, 0, 0, 0, 5, \h48, \h45, \h4C, \h4C, \h4F, 0, 0, 0 >>
        \o TerminatorLine,                                 \* IF { WRITE_STR "HELLO" }
      IfLine \o << \h22, 0, \h30, 0, 0, 0, 0, 2 >> \o Write32Line
        \o TerminatorLine,                                 \* IF { IF_NEQ_32 { WRITE_32 } }
      << \h28, 0, \h30, 0, \hFF, \hFF, 0, 1 >> \o IfLine \o Write32Line
        \o TerminatorLine \o Write32Line,                  \* IF_EQ_16 { IF { WRITE_32 } } ...
      IfLine \o Write32Line \o ExitLine }                  \* IF { WRITE_32 } EXIT

\* encodings outside the taxonomy: an unaligned WRITE_32 and an unknown opcode
OtherCommands ==
    { << \h04, \h12, \h34, \h56, \hDE, \hAD, \hBE, \hEF >>,
      << \h0A, 0, 0, 0, 0, 0, 0, 0 >> }

RECURSIVE Flatten(_)
Flatten(ss) == IF ss = <<>> THEN <<>> ELSE Head(ss) \o Flatten(Tail(ss))

\* the concatenations of at most n members of S
Bodies(S, n) == { Flatten(ss) : ss \in UNION { [1..k -> S] : k \in 0..n } }

\* codelists that conform: magic, conforming commands, the Exit line
WellFormedBinInputs == { Magic \o b \o ExitLine : b \in Bodies(WellFormedCommands, MaxCmds) }

BinInputs ==
    WellFormedBinInputs
    \cup { Magic \o b : b \in Bodies(WellFormedCommands, 1) }
    \cup { Magic \o b \o ExitLine : b \in Bodies(OtherCommands, 1) }
    \cup { Magic \o b \o ExitLine : b \in BlockCommands }
    \cup { Magic \o << \hCC, 0, 0, 0, 0, 0, 0, 0 >> \o ExitLine }
    \cup { ExitLine, <<>> }

\* ------------------------------------------------------------------------
\* GeckoCodeTable.from_bytes(f), GeckoCode.from_bytes(f)
\* ------------------------------------------------------------------------

\* GeckoCodeTable.from_bytes up to the call of GeckoCode.from_bytes: the magic
\* is read and asserted, and GeckoCode.from_bytes creates the code object
GeckoCodeTable_from_bytes ==
    /\ scn = "binary"
    /\ pc = "start"
    /\ LET magic == Read(input, pos, 8)
       IN  /\ pos' = Advance(input, pos, 8)
           /\ IF magic = Magic
              THEN /\ pc' = "from_bytes"
                   /\ code' = GeckoCode(TmpName(TmpNameCounter), None, None, TRUE)
                   /\ TmpNameCounter' = TmpNameCounter + 1
              ELSE /\ pc' = "AssertionError"
                   /\ UNCHANGED <<code, TmpNameCounter>>
    /\ UNCHANGED <<scn, runVars, input, codes, out, mapped, applyVars, cmdVars, txtVars>>

\* one iteration of the "while True" loop of GeckoCode.from_bytes; when the
\* loop breaks, from_bytes returns and the table adds the code
GeckoCode_from_bytes ==
    /\ pc = "from_bytes"
    /\ Len(code.commands) < MaxCommands
    /\ LET r == bytes_to_geckocommand(input, pos)
       IN  /\ r.exc # "NotModelled"
           /\ pos' = r.pos
           /\ IF r.exc # "" \/ r.cmd.kind = "EXIT"
              THEN /\ pc' = "decoded"
                   /\ codes' = GeckoCodeTable_add_child(codes, code)
                   /\ UNCHANGED code
              ELSE /\ code' = GeckoCode_add_child(code, r.cmd)
                   /\ UNCHANGED <<pc, codes>>
    /\ UNCHANGED <<scn, runVars, input, out, TmpNameCounter, mapped, applyVars, cmdVars, txtVars>>

\* gct.as_bytes() on the decoded table
AsBytes ==
    /\ pc = "decoded"
    /\ out' = GeckoCodeTable_as_bytes(codes)
    /\ pc' = "encoded"
    /\ UNCHANGED <<scn, runVars, input, pos, code, codes, TmpNameCounter, mapped, applyVars, cmdVars, txtVars>>

\* ------------------------------------------------------------------------
\* The executable image.  It is an external collaborator: is_mapped answers
\* from the set mapped, and every call is appended to the call log dol.
\* ------------------------------------------------------------------------

Call(op, addr, data, n) == [ op |-> op, addr |-> addr, data |-> data, n |-> n ]

\* dol.is_mapped(addr)
is_mapped(addr) == Call("is_mapped", addr, <<>>, 0)

\* dol.seek(addr)
seek(addr) == Call("seek", addr, <<>>, 0)

\* dol.write(data) with a bytes object
write(data) == Call("write", <<>>, data, 0)

\* dol.write(n) with an int
write_int(n) == Call("write_int", <<>>, <<>>, n)

\* dol.insert_branch(value, addr, lk=lk)
insert_branch(value, addr, lk) == Call("insert_branch", addr, value, lk)

\* addr = self._address | 0x80000000, as four bytes
Or80(address) ==
    LET w == Word(address) IN << BitOr(w[1], \h80), w[2], w[3], w[4] >>

RECURSIVE Repeated(_, _)
Repeated(x, n) == IF n <= 0 THEN <<>> ELSE << x >> \o Repeated(x, n - 1)

\* ------------------------------------------------------------------------
\* apply of each class.  A call returns [ret, calls]: the value returned and
\* the calls it made on the image.  Write8.apply and Write16.apply are
\* modelled stepwise by the actions below (their loop is a "while").
\* ------------------------------------------------------------------------

Applied(r, calls) == [ ret |-> r, calls |-> calls ]

\* GeckoCommand.apply: the inherited default
GeckoCommand_apply(cmd) == Applied(FALSE, <<>>)

\* a Write32.apply that seeks and writes before it asks is_mapped
Write32_apply_unchecked(cmd, m) ==
    LET addr == Or80(cmd.address)
    IN  Applied(addr \in m, << seek(addr), write(cmd.value), is_mapped(addr) >>)

\* Write32.apply
Write32_apply(cmd, m) ==
    LET addr == Or80(cmd.address)
    IN  IF addr \in m
        THEN Applied(TRUE, << is_mapped(addr), seek(addr), write(cmd.value) >>)
        ELSE Applied(FALSE, << is_mapped(addr) >>)

\* WriteString.apply
WriteString_apply(cmd, m) ==
    LET addr == Or80(cmd.address)
    IN  IF addr \in m
        THEN Applied(TRUE, << is_mapped(addr), seek(addr), write(cmd.value) >>)
        ELSE Applied(FALSE, << is_mapped(addr) >>)

\* WriteSerial.__getitem__(index), for 0 <= index: IndexError or (addr, value)
WriteSerial_getitem(cmd, index) ==
    IF index >= cmd.repeat
    THEN [ exc |-> "IndexError", addr |-> 0, value |-> 0 ]
    ELSE [ exc |-> "",
           addr |-> cmd.address + cmd.addressInc * index,
           value |-> int_from_bytes(cmd.value) + int_from_bytes(cmd.valueInc) * index ]

RECURSIVE WriteSerial_iterate(_, _)
\* "for addr, value in self": GeckoCommand.__next__ reads self[_iterpos - 1]
\* until IndexError; the body seeks and writes
WriteSerial_iterate(cmd, itp) ==
    LET item == WriteSerial_getitem(cmd, itp)
    IN  IF item.exc # "" THEN <<>>
        ELSE << seek(Word(item.addr)), write_int(item.value) >>
             \o WriteSerial_iterate(cmd, itp + 1)

\* WriteSerial.apply
WriteSerial_apply(cmd, m) ==
    LET addr == Or80(cmd.address)
    IN  IF addr \in m
        THEN Applied(TRUE, << is_mapped(addr) >> \o WriteSerial_iterate(cmd, 0))
        ELSE Applied(FALSE, << is_mapped(addr) >>)

\* WriteBranch.apply
WriteBranch_apply(cmd, m) ==
    LET addr == Or80(cmd.address)
    IN  IF addr \in m
        THEN Applied(TRUE, << is_mapped(addr), seek(addr),
                              insert_branch(cmd.value, addr, cmd.address % 2) >>)
        ELSE Applied(FALSE, << is_mapped(addr) >>)

\* command.apply(dol) for the classes applied in one step
apply(cmd, m) ==
    CASE cmd.kind = "WRITE_32" -> Write32_apply(cmd, m)
      [] cmd.kind = "WRITE_STR" -> WriteString_apply(cmd, m)
      [] cmd.kind = "WRITE_SERIAL" -> WriteSerial_apply(cmd, m)
      [] cmd.kind = "WRITE_BRANCH" -> WriteBranch_apply(cmd, m)
      [] OTHER -> GeckoCommand_apply(cmd)

\* ------------------------------------------------------------------------
\* Tables built through the constructors, and images, for pre-application
\* ------------------------------------------------------------------------

W12345678 == << \h12, \h34, \h56, \h78 >>

ApplyCommands ==
    { Write8(\hAB, \h1000, r, FALSE) : r \in { 0, MaxRepeat } }
    \cup { Write16(\h1234, \h1000, r, FALSE) : r \in { 0, MaxRepeat } }
    \cup { Write32(W12345678, a, FALSE) : a \in { \h1000, \h2000 } }
    \cup { WriteString(<< \h48, \h45, \h4C, \h4C, \h4F >>, \h1000, FALSE) }
    \cup { WriteSerial(Word(1), r, \h1000, FALSE, 2, 4, Word(1)) : r \in { 0, MaxRepeat } }
    \cup { WriteBranch(<< \h80, 0, \h12, \h34 >>, \h1001, FALSE) }
    \cup { add_child(IfEqual32("IF_EQ_32", Word(1), \h1000, FALSE, FALSE),
                     Write32(W12345678, \h1000, FALSE)) }
    \cup { Terminator(Word(0)) }

NameA == << "A" >>

NameB == << "B" >>

CodeOf(name, commands) == [ GeckoCode(name, None, None, TRUE) EXCEPT !.commands = commands ]

ApplyTables ==
    { << CodeOf(NameA, cs) >> : cs \in UNION { [1..k -> ApplyCommands] : k \in 0..MaxCmds } }
    \cup { << [ CodeOf(NameA, << a >>) EXCEPT !.enabled = e ], CodeOf(NameB, << b >>) >> :
             a \in ApplyCommands, b \in ApplyCommands, e \in BOOLEAN }
    \cup { << [ CodeOf(NameA, << a >>) EXCEPT !.enabled = FALSE ] >> : a \in ApplyCommands }
    \cup { <<>> }

MappedSets == { {}, { Or80(\h1000), Or80(\h1001) }, { Or80(\h1000), Or80(\h1001), Or80(\h2000) } }

\* ------------------------------------------------------------------------
\* GeckoCodeTable.apply(dol), GeckoCode.apply(dol)
\* ------------------------------------------------------------------------

\* GeckoCodeTable.apply: status = False; "for code in self" calls __iter__
GeckoCodeTable_apply ==
    /\ scn = "apply"
    /\ pc = "start"
    /\ status' = FALSE
    /\ iterpos' = 0
    /\ pc' = "apply_table"
    /\ UNCHANGED <<scn, runVars, ioVars, tblVars, mapped, dol, cstatus, ki, counter, base, ret, cmdVars, txtVars>>

\* a GeckoCodeTable.apply that passes over the codes that are not enabled
GeckoCodeTable_next_enabled ==
    /\ pc = "apply_table"
    /\ iterpos' = iterpos + 1
    /\ IF iterpos + 1 <= Len(codes)
       THEN IF codes[iterpos + 1].enabled
            THEN /\ cstatus' = FALSE
                 /\ ki' = 1
                 /\ pc' = "apply_code"
            ELSE UNCHANGED <<pc, cstatus, ki>>
       ELSE /\ pc' = "applied"
            /\ UNCHANGED <<cstatus, ki>>
    /\ UNCHANGED <<scn, runVars, ioVars, tblVars, mapped, dol, status, counter, base, ret, cmdVars, txtVars>>

\* GeckoCodeTable.__next__: the next code, whose apply begins (status = False),
\* or StopIteration and GeckoCodeTable.apply returns status
GeckoCodeTable_next ==
    /\ pc = "apply_table"
    /\ iterpos' = iterpos + 1
    /\ IF iterpos + 1 <= Len(codes)
       THEN /\ cstatus' = FALSE
            /\ ki' = 1
            /\ pc' = "apply_code"
       ELSE /\ pc' = "applied"
            /\ UNCHANGED <<cstatus, ki>>
    /\ UNCHANGED <<scn, runVars, ioVars, tblVars, mapped, dol, status, counter, base, ret, cmdVars, txtVars>>

\* the code whose apply is running
CurrentCode == codes[iterpos]

\* GeckoCode.apply: "for command in self._commands: status |= command.apply(dol)"
\* for a command whose apply has no "while" loop
GeckoCode_apply ==
    /\ pc = "apply_code"
    /\ ki <= Len(CurrentCode.commands)
    /\ CurrentCode.commands[ki].kind \notin { "WRITE_8", "WRITE_16" }
    /\ LET r == apply(CurrentCode.commands[ki], mapped)
       IN  /\ base' = Len(dol)
           /\ dol' = dol \o r.calls
           /\ ret' = r.ret
           /\ cstatus' = (cstatus \/ r.ret)
    /\ ki' = ki + 1
    /\ UNCHANGED <<scn, runVars, pc, ioVars, tblVars, mapped, status, iterpos, counter, cmdVars, txtVars>>

\* Write8.apply / Write16.apply up to the loop: is_mapped, seek, counter = repeat
Write8_apply ==
    /\ pc = "apply_code"
    /\ ki <= Len(CurrentCode.commands)
    /\ CurrentCode.commands[ki].kind \in { "WRITE_8", "WRITE_16" }
    /\ LET cmd == CurrentCode.commands[ki]
           addr == Or80(cmd.address)
       IN  /\ base' = Len(dol)
           /\ IF addr \in mapped
              THEN /\ dol' = dol \o << is_mapped(addr), seek(addr) >>
                   /\ counter' = cmd.repeat
                   /\ pc' = "write_loop"
                   /\ UNCHANGED <<ret, cstatus, ki>>
              ELSE /\ dol' = dol \o << is_mapped(addr) >>
                   /\ ret' = FALSE
                   /\ cstatus' = (cstatus \/ FALSE)
                   /\ ki' = ki + 1
                   /\ UNCHANGED <<pc, counter>>
    /\ UNCHANGED <<scn, runVars, ioVars, tblVars, mapped, status, iterpos, cmdVars, txtVars>>

\* a loop that tests "while counter > 0"
Write8_apply_loop_short ==
    /\ pc = "write_loop"
    /\ IF counter > 0
       THEN /\ dol' = Append(dol, write(CurrentCode.commands[ki].value))
            /\ counter' = counter - 1
            /\ UNCHANGED <<pc, ret, cstatus, ki>>
       ELSE /\ ret' = TRUE
            /\ cstatus' = (cstatus \/ TRUE)
            /\ ki' = ki + 1
            /\ pc' = "apply_code"
            /\ UNCHANGED <<dol, counter>>
    /\ UNCHANGED <<scn, runVars, ioVars, tblVars, mapped, status, iterpos, base, cmdVars, txtVars>>

\* one test of "while counter + 1 > 0": a write and counter -= 1, or return True
Write8_apply_loop ==
    /\ pc = "write_loop"
    /\ IF counter + 1 > 0
       THEN /\ dol' = Append(dol, write(CurrentCode.commands[ki].value))
            /\ counter' = counter - 1
            /\ UNCHANGED <<pc, ret, cstatus, ki>>
       ELSE /\ ret' = TRUE
            /\ cstatus' = (cstatus \/ TRUE)
            /\ ki' = ki + 1
            /\ pc' = "apply_code"
            /\ UNCHANGED <<dol, counter>>
    /\ UNCHANGED <<scn, runVars, ioVars, tblVars, mapped, status, iterpos, base, cmdVars, txtVars>>

\* a GeckoCodeTable.apply that keeps the last code's result: status = code.apply(dol)
GeckoCode_apply_return_last ==
    /\ pc = "apply_code"
    /\ ki > Len(CurrentCode.commands)
    /\ status' = cstatus
    /\ pc' = "apply_table"
    /\ UNCHANGED <<scn, runVars, ioVars, tblVars, mapped, dol, cstatus, iterpos, ki, counter, base, ret, cmdVars, txtVars>>

\* GeckoCode.apply returns status; GeckoCodeTable.apply: status |= code.apply(dol)
GeckoCode_apply_return ==
    /\ pc = "apply_code"
    /\ ki > Len(CurrentCode.commands)
    /\ status' = (status \/ cstatus)
    /\ pc' = "apply_table"
    /\ UNCHANGED <<scn, runVars, ioVars, tblVars, mapped, dol, cstatus, iterpos, ki, counter, base, ret, cmdVars, txtVars>>

\* ------------------------------------------------------------------------
\* The command-level API: constructors, bytes_to_geckocommand, as_bytes
\* ------------------------------------------------------------------------

\* encodings whose opcode has the 0x10 bit (isPointer) set
PointerCommands ==
    { << \h10, 0, 0, \h10, 0, 0, 0, \hFF >>,                          \* WRITE_8
      << \h12, 0, 0, \h10, 0, 0, \h12, \h34 >>,                       \* WRITE_16
      << \h30, 0, \h10, 0, 0, 0, 0, 1 >> \o TerminatorLine,           \* IF_EQ_32
      << \h32, 0, \h10, 0, 0, 0, 0, 1 >> \o TerminatorLine,           \* IF_NEQ_32
      << \h38, 0, \h10, 0, \hFF, \hFF, 0, 1 >> \o TerminatorLine,     \* IF_EQ_16
      << \h3E, 0, \h10, 0, \hFF, \hFF, 0, 1 >> \o TerminatorLine,     \* IF_LT_16
      << \hD6, 0, \h10, 0, \h80, 0, \h12, \h34 >> }                   \* WRITE_BRANCH

\* an 8-byte blob: "blr", "nop"
Blob8 == << \h4E, \h80, 0, \h20, \h60, 0, 0, 0 >>

\* ASM_INSERT, ASM_INSERT_L, ASM_INSERT_XOR of one line of code
AsmCommands ==
    { << \hC2, 0, \h10, 0, 0, 0, 0, 1 >> \o Blob8,
      << \hD2, 0, \h10, 0, 0, 0, 0, 1 >> \o Blob8,
      << \hC2, 0, \h10, 0, 0, 0, 0, 2 >> \o Blob8 \o Blob8,
      << \hC4, 0, \h10, 0, 0, 0, 0, 1 >> \o Blob8,
      << \hF2, 0, \h10, 0, 0, 0, 0, 1 >> \o Blob8 }

\* a 16-byte search pattern
Pattern16 == Blob8 \o << \h38, \h60, 0, 1, \h38, \h80, 0, 2 >>

WDEADBEEF == << \hDE, \hAD, \hBE, \hEF >>

\* BRAINSLUG_SEARCH of Pattern16 in 0x80000000..0x81800000 with two
\* WRITE_32 children, then TERMINATOR; the same with no child
SearchCommands ==
    { << \hF6, 0, 0, 2, \h80, 0, \h81, \h80 >> \o Pattern16
        \o << \h04, 0, \h10, 0, \h12, \h34, \h56, \h78 >>
        \o << \h04, 0, \h10, \h04, \hDE, \hAD, \hBE, \hEF >> \o TerminatorLine,
      << \hF6, 0, 0, 2, \h80, 0, \h81, \h80 >> \o Pattern16 \o TerminatorLine }

SwitchLine == << \hCC, 0, 0, 0, 0, 0, 0, 0 >>

\* SWITCH; SWITCH and a further command; EXIT
SingleLineCommands == { SwitchLine, SwitchLine \o Write32Line, ExitLine }

\* single commands handed to GeckoCommand.bytes_to_geckocommand
CommandInputs ==
    WellFormedCommands \cup OtherCommands \cup PointerCommands \cup AsmCommands
    \cup SearchCommands \cup BlockCommands \cup SingleLineCommands

ValueArgs == { 0, \hFF, \h1234 }

AddressArgs == { 0, \h10, \h1000, \h123456 }

RepeatArgs == { 0, 3, \hFFFF }

\* the blobs handed to the AsmInsert* constructors: empty, not a multiple of
\* 8, 8 bytes, 16 bytes
BlobArgs == { <<>>, << \h60, 0, 0, 0 >>, Blob8, Blob8 \o Blob8 }

\* the constructor calls other than Write8 and Write16
ConstructorCalls ==
    { Constructed(Write32(W12345678, a, p)) : a \in AddressArgs, p \in BOOLEAN }
    \cup { Constructed(IfEqual32(k, Word(1), a, p, FALSE)) :
              k \in { "IF_EQ_32", "IF_GT_32" }, a \in AddressArgs, p \in BOOLEAN }
    \cup { Constructed(IfEqual16(k, 1, a, p, FALSE, \hFFFF)) :
              k \in { "IF_EQ_16", "IF_NEQ_16" }, a \in AddressArgs, p \in BOOLEAN }
    \cup { Constructed(WriteBranch(<< \h80, 0, \h12, \h34 >>, a, p)) :
              a \in AddressArgs, p \in BOOLEAN }
    \cup { Constructed(AsmInsert(b, \h1000, p)) : b \in BlobArgs, p \in BOOLEAN }
    \cup { AsmInsertLink(b, \h1000, FALSE) : b \in BlobArgs }
    \cup { AsmInsertXOR(b, \h1000, FALSE, 0, 0) : b \in BlobArgs }
    \cup { Constructed(BrainslugSearch(Pattern16, 0, << \h8000, \h8180 >>)) }

\* a constructor called explicitly: Write8(value, address, repeat, isPointer),
\* Write16(...), or one of ConstructorCalls; the object, or the exception
Construct ==
    /\ scn = "construct"
    /\ pc = "start"
    /\ \E c \in ConstructorCalls
              \cup { Constructed(Write8(v, a, r, p)) :
                       v \in ValueArgs, a \in AddressArgs, r \in RepeatArgs, p \in BOOLEAN }
              \cup { Constructed(Write16(v, a, r, p)) :
                       v \in ValueArgs, a \in AddressArgs, r \in RepeatArgs, p \in BOOLEAN } :
          IF c.exc = ""
          THEN command' = c.cmd /\ pc' = "command"
          ELSE pc' = c.exc /\ UNCHANGED command
    /\ UNCHANGED <<scn, runVars, ioVars, tblVars, mapped, applyVars, command2, txtVars>>

\* the commands added to a block
ChildArgs ==
    { Write32(W12345678, \h1000, FALSE), Write32(WDEADBEEF, \h1004, FALSE), Exit,
      WriteSerial(Word(1), 1, \h1000, FALSE, 2, 4, Word(1)),
      add_child(IfEqual32("IF_EQ_32", Word(2), \h1000, FALSE, FALSE),
                Write32(W12345678, \h1000, FALSE)) }

\* command.add_child(child, index) on a constructed block command
Command_add_child ==
    /\ scn = "construct"
    /\ pc = "command"
    /\ command.kind \in If32Kinds \cup If16Kinds \cup { "BRAINSLUG_SEARCH" }
    /\ Len(command.children) < MaxCmds
    /\ \E child \in ChildArgs, index \in -1..Len(command.children) :
          command' = add_child_at(command, child, index)
    /\ UNCHANGED <<scn, runVars, pc, ioVars, tblVars, mapped, applyVars, command2, txtVars>>

\* GeckoCommand.bytes_to_geckocommand(input), called with a bytes object
DecodeCommand ==
    /\ scn = "decode"
    /\ pc = "start"
    /\ LET r == bytes_to_geckocommand(input, 0)
       IN  /\ r.exc # "NotModelled"
           /\ pos' = r.pos
           /\ command' = r.cmd
           /\ pc' = IF r.exc # "" THEN r.exc ELSE "command"
    /\ UNCHANGED <<scn, runVars, input, out, tblVars, mapped, applyVars, command2, txtVars>>

\* command.as_bytes()
Command_as_bytes ==
    /\ pc = "command"
    /\ out' = as_bytes(command)
    /\ pc' = "command_bytes"
    /\ UNCHANGED <<scn, runVars, input, pos, tblVars, mapped, applyVars, cmdVars, txtVars>>

\* GeckoCommand.bytes_to_geckocommand(command.as_bytes())
Redecode ==
    /\ pc = "command_bytes"
    /\ out.exc = ""
    /\ LET r == bytes_to_geckocommand(out.bytes, 0)
       IN  /\ r.exc # "NotModelled"
           /\ command2' = r.cmd
           /\ pc' = IF r.exc # "" THEN r.exc ELSE "command_again"
    /\ UNCHANGED <<scn, runVars, ioVars, tblVars, mapped, applyVars, command, txtVars>>

\* ------------------------------------------------------------------------
\* The code-level API: GeckoCode(...), add_child, +=, item assignment
\* ------------------------------------------------------------------------

\* the commands handed to a GeckoCode
CodeArgs == { Write32(W12345678, \h1000, FALSE), Terminator(Word(0)), Exit }

\* GeckoCode.__setitem__(index, value) for 0 <= index < len(self._commands)
GeckoCode_setitem(c, index, value) == [ c EXCEPT !.commands[index + 1] = value ]

\* code = GeckoCode("A", None, None)
Code_init ==
    /\ scn = "build"
    /\ pc = "start"
    /\ code' = GeckoCode(NameA, None, None, TRUE)
    /\ pc' = "code"
    /\ UNCHANGED <<scn, runVars, ioVars, codes, TmpNameCounter, mapped, applyVars, cmdVars, txtVars>>

\* code.add_child(command)
Code_add_child ==
    /\ pc = "code"
    /\ Len(code.commands) <= MaxCmds
    /\ \E c \in CodeArgs : code' = GeckoCode_add_child(code, c)
    /\ UNCHANGED <<scn, runVars, pc, ioVars, codes, TmpNameCounter, mapped, applyVars, cmdVars, txtVars>>

\* "code += command": __iadd__ runs self.add_child(other) and returns None,
\* which the statement binds to the caller's name; the object keeps the command
Code_iadd ==
    /\ pc = "code"
    /\ Len(code.commands) <= MaxCmds
    /\ \E c \in CodeArgs : code' = GeckoCode_add_child(code, c)
    /\ pc' = "code_is_None"
    /\ UNCHANGED <<scn, runVars, ioVars, codes, TmpNameCounter, mapped, applyVars, cmdVars, txtVars>>

\* code[index] = command, for an index the list has
Code_setitem ==
    /\ pc = "code"
    /\ \E index \in 0..(Len(code.commands) - 1), c \in CodeArgs :
          code' = GeckoCode_setitem(code, index, c)
    /\ UNCHANGED <<scn, runVars, pc, ioVars, codes, TmpNameCounter, mapped, applyVars, cmdVars, txtVars>>

\* ------------------------------------------------------------------------
\* Text.  A Python str is a sequence of one-character strings.
\* ------------------------------------------------------------------------

\* the characters str.strip() removes
Whitespace == { " ", "\n", "\t", "\r" }

RECURSIVE lstrip(_)
lstrip(s) == IF Len(s) > 0 /\ s[1] \in Whitespace THEN lstrip(Tail(s)) ELSE s

RECURSIVE rstrip(_)
rstrip(s) ==
    IF Len(s) > 0 /\ s[Len(s)] \in Whitespace THEN rstrip(SubSeq(s, 1, Len(s) - 1)) ELSE s

strip(s) == rstrip(lstrip(s))

\* s.startswith(prefix)
startswith(s, prefix) == Len(s) >= Len(prefix) /\ SubSeq(s, 1, Len(prefix)) = prefix

\* s.endswith(suffix)
endswith(s, suffix) ==
    Len(s) >= Len(suffix) /\ SubSeq(s, Len(s) - Len(suffix) + 1, Len(s)) = suffix

\* s[-n:] of Python for n > 0
Last(s, n) == SubSeq(s, Max(1, Len(s) - n + 1), Len(s))

RECURSIVE join(_, _)
\* sep.join(parts)
join(sep, parts) ==
    IF Len(parts) = 0 THEN <<>>
    ELSE IF Len(parts) = 1 THEN parts[1]
    ELSE parts[1] \o sep \o join(sep, Tail(parts))

RECURSIVE replace(_, _, _)
\* new.join(s.split(old)) for a one-character old
replace(s, old, new) ==
    IF Len(s) = 0 THEN <<>>
    ELSE (IF s[1] = old THEN new ELSE << s[1] >>) \o replace(Tail(s), old, new)

\* "".join(s.split()): s without its whitespace
unspaced(s) == SelectSeq(s, LAMBDA c : c \notin Whitespace)

LowerCase == << "a", "b", "c", "d", "e", "f", "g", "h", "i", "j", "k", "l", "m",
                "n", "o", "p", "q", "r", "s", "t", "u", "v", "w", "x", "y", "z" >>

UpperCase == << "A", "B", "C", "D", "E", "F", "G", "H", "I", "J", "K", "L", "M",
                "N", "O", "P", "Q", "R", "S", "T", "U", "V", "W", "X", "Y", "Z" >>

\* the index of character c in seq, 0 when it is not there
IndexOf(seq, c) ==
    IF \E i \in 1..Len(seq) : seq[i] = c THEN CHOOSE i \in 1..Len(seq) : seq[i] = c ELSE 0

\* s.upper()
upper(s) ==
    [i \in 1..Len(s) |->
        IF IndexOf(LowerCase, s[i]) > 0 THEN UpperCase[IndexOf(LowerCase, s[i])] ELSE s[i]]

\* s.lower()
lower(s) ==
    [i \in 1..Len(s) |->
        IF IndexOf(UpperCase, s[i]) > 0 THEN LowerCase[IndexOf(UpperCase, s[i])] ELSE s[i]]

\* s.isalnum()
isalnum(s) ==
    /\ Len(s) > 0
    /\ \A i \in 1..Len(s) :
          IndexOf(LowerCase, s[i]) > 0 \/ IndexOf(UpperCase, s[i]) > 0 \/ IndexOf(Digits, s[i]) > 0

\* the digits of bytes.hex()
HexDigits == << "0", "1", "2", "3", "4", "5", "6", "7", "8", "9", "a", "b", "c", "d", "e", "f" >>

RECURSIVE hex(_)
\* b.hex()
hex(b) ==
    IF Len(b) = 0 THEN <<>>
    ELSE << HexDigits[(b[1] \div 16) + 1], HexDigits[(b[1] % 16) + 1] >> \o hex(Tail(b))

\* the value of a hexadecimal digit of either case, -1 for any other character
HexValue(c) == IndexOf(HexDigits, lower(<< c >>)[1]) - 1

RECURSIVE fromhex(_)
\* bytes.fromhex(s): pairs of digits, whitespace allowed between pairs;
\* returns [exc, bytes]
fromhex(s) ==
    IF Len(s) = 0 THEN Bytes(<<>>)
    ELSE IF s[1] \in Whitespace THEN fromhex(Tail(s))
    ELSE IF Len(s) < 2 \/ HexValue(s[1]) < 0 \/ HexValue(s[2]) < 0 THEN Failed("ValueError")
    ELSE LET rest == fromhex(SubSeq(s, 3, Len(s)))
         IN  IF rest.exc # "" THEN rest
             ELSE Bytes(<< 16 * HexValue(s[1]) + HexValue(s[2]) >> \o rest.bytes)

\* f.tell() after f.readline() at cursor p: past the next "\n", or the end
LineEnd(text, p) ==
    IF \E i \in (p + 1)..Len(text) : text[i] = "\n"
    THEN CHOOSE i \in (p + 1)..Len(text) :
            text[i] = "\n" /\ \A j \in (p + 1)..(i - 1) : text[j] # "\n"
    ELSE Max(p, Len(text))

\* f.readline() at cursor p
readline(text, p) == SubSeq(text, p + 1, LineEnd(text, p))

RECURSIVE readlines(_, _)
\* f.readlines() at cursor p
readlines(text, p) ==
    IF p >= Len(text) THEN <<>>
    ELSE << readline(text, p) >> \o readlines(text, LineEnd(text, p))

\* "[Gecko]"
GeckoTag == << "[", "G", "e", "c", "k", "o", "]" >>

\* "[Gecko_Enabled]"
GeckoEnabledTag ==
    << "[", "G", "e", "c", "k", "o", "_", "E", "n", "a", "b", "l", "e", "d", "]" >>

\* GeckoCodeTable.VolatileToken
VolatileToken == << "[", "[", "v", "o", "l", "a", "t", "i", "l", "e", "]", "]" >>

\* the members of GeckoTextType
GeckoTextType == { "DOLPHIN", "OCARINA", "RAW" }

RECURSIVE detect_lines(_)
\* the loop of detect_codelist_type over f.readlines(); falling off the end
\* of the loop returns None
detect_lines(lines) ==
    IF Len(lines) = 0 THEN "None"
    ELSE LET line == strip(lines[1])
         IN  IF line = <<>> THEN detect_lines(Tail(lines))
             ELSE IF line = GeckoTag THEN "DOLPHIN"
             ELSE IF Len(line) = 6 THEN "OCARINA"
             ELSE "RAW"

\* GeckoCodeTable.detect_codelist_type(f) for a str
detect_codelist_type(f) == detect_lines(readlines(f, 0))

\* ------------------------------------------------------------------------
\* Text decoder: GeckoCommand.str_to_geckocommand on the text and a cursor.
\* A call returns [exc, cmd, pos] as the binary decoder does.
\* ------------------------------------------------------------------------

RECURSIVE read_payload_lines(_, _, _, _)
\* "for _ in range(n): data += bytes.fromhex("".join(f.readline().strip().split()))"
\* returns [exc, bytes, pos]; at the end of the text every further line is empty
read_payload_lines(text, p, n, data) ==
    IF n <= 0 \/ p >= Len(text) THEN [ exc |-> "", bytes |-> data, pos |-> p ]
    ELSE LET Body(more) ==
                 IF more.exc # ""
                 THEN [ exc |-> more.exc, bytes |-> data, pos |-> LineEnd(text, p) ]
                 ELSE read_payload_lines(text, LineEnd(text, p), n - 1, data \o more.bytes)
         IN  Body(fromhex(unspaced(strip(readline(text, p)))))

RECURSIVE str_to_geckocommand(_, _)
RECURSIVE str_add_children_till_terminator(_, _, _)

\* the nested helper of str_to_geckocommand
str_add_children_till_terminator(cmd, text, p) ==
    LET Body(child) ==
            IF child.exc # "" THEN Raised(child.exc, child.pos)
            ELSE IF child.cmd.kind \in { "TERMINATOR", "EXIT" }
            THEN \* f.seek(f.tell() - 17)
                 IF child.pos - 17 < 0 THEN Raised("ValueError", child.pos)
                 ELSE Returned(cmd, child.pos - 17)
            ELSE str_add_children_till_terminator(add_child(cmd, child.cmd), text, child.pos)
    IN  IF p < Len(text) THEN Body(str_to_geckocommand(text, p)) ELSE Returned(cmd, p)

\* WRITE_STR, once the payload lines r = [exc, bytes, pos] are read
WriteString_from_lines(size, r, address, isPointerType) ==
    LET diff == size - Len(r.bytes)
        \* data[:size - len(data)]
        data == IF diff = 0 THEN r.bytes
                ELSE IF diff < 0 THEN SubSeq(r.bytes, 1, Max(0, Len(r.bytes) + diff))
                ELSE Slice(r.bytes, 0, diff)
    IN  IF r.exc # "" THEN Raised(r.exc, r.pos)
        ELSE Returned(WriteString(data, address, isPointerType), r.pos)

\* WRITE_SERIAL, once the line r = [exc, bytes, pos] after the first is read
WriteSerial_from_line(r, address, isPointerType) ==
    LET value == Pad4(Slice(r.bytes, 0, 4))
        valueSize == int_from_bytes(Slice(r.bytes, 4, 5)) \div 16
        repeat == int_from_bytes(Slice(r.bytes, 4, 5)) % 16
        addressInc == int_from_bytes(Slice(r.bytes, 6, 8))
        valueInc == SliceFrom(r.bytes, 8)
    IN  IF r.exc # "" THEN Raised(r.exc, r.pos)
        ELSE IF Len(valueInc) > 4 THEN Raised("NotModelled", r.pos)
        ELSE Returned(WriteSerial(value, repeat, address, isPointerType,
                                  valueSize, addressInc, Pad4(valueInc)),
                      r.pos)

\* the body of str_to_geckocommand once the line is read: metadata is
\* bytes.fromhex(line[:8]), parsed is bytes.fromhex(line[-8:]), computed by
\* every modelled branch but WRITE_SERIAL and EXIT
str_decode_line(text, p1, metadata, parsed) ==
    LET m == Pad4(metadata.bytes)
        address == AddressOf(m)
        codetype == int_to_type(BitAnd(m[1], \hFE))
        isPointerType == BitAnd(m[1], \h10) # 0
        info == parsed.bytes
        known == { "WRITE_8", "WRITE_16", "WRITE_32", "WRITE_STR", "WRITE_BRANCH",
                   "TERMINATOR" } \cup If32Kinds \cup If16Kinds
    IN  CASE metadata.exc # "" -> Raised(metadata.exc, p1)
          [] codetype = "ValueError" -> Raised("ValueError", p1)
          [] codetype \in known /\ parsed.exc # "" -> Raised(parsed.exc, p1)
          [] codetype = "WRITE_8" ->
                LET value == int_from_bytes(SliceFrom(info, 3))
                    repeat == int_from_bytes(Slice(info, 0, 2))
                IN  Returned(Write8(value, repeat, address, isPointerType), p1)
          [] codetype = "WRITE_16" ->
                LET value == int_from_bytes(SliceFrom(info, 2))
                    repeat == int_from_bytes(Slice(info, 0, 2))
                IN  Returned(Write16(value, repeat, address, isPointerType), p1)
          [] codetype = "WRITE_32" ->
                Returned(Write32(Pad4(info), address, isPointerType), p1)
          [] codetype = "WRITE_STR" ->
                \* range(((size + 7) & -8) >> 3)
                WriteString_from_lines(
                    SizeOf(Pad4(info)),
                    read_payload_lines(text, p1, (SizeOf(Pad4(info)) + 7) \div 8, <<>>),
                    address, isPointerType)
          [] codetype = "WRITE_SERIAL" ->
                WriteSerial_from_line(read_payload_lines(text, p1, 1, <<>>),
                                      address, isPointerType)
          [] codetype \in If32Kinds ->
                str_add_children_till_terminator(
                    IfEqual32(codetype, Pad4(info), address, FALSE, address % 2 = 1),
                    text, p1)
          [] codetype \in If16Kinds ->
                LET value == int_from_bytes(SliceFrom(Pad4(info), 2))
                    mask == int_from_bytes(Slice(Pad4(info), 0, 2))
                IN  str_add_children_till_terminator(
                        IfEqual16(codetype, value, address, FALSE, address % 2 = 1, mask),
                        text, p1)
          [] codetype = "WRITE_BRANCH" ->
                Returned(WriteBranch(Pad4(info), address, isPointerType), p1)
          [] codetype = "SWITCH" ->
                Returned(Switch, p1)
          [] codetype = "TERMINATOR" ->
                Returned(Terminator(Pad4(info)), p1)
          [] codetype = "EXIT" ->
                \* f.seek(4, 1): a StringIO refuses a nonzero cursor-relative seek
                Raised("OSError", p1)
          [] OTHER -> Raised("NotModelled", p1)

str_to_geckocommand(text, p) ==
    LET Decode(line) ==
            str_decode_line(text, LineEnd(text, p), fromhex(Slice(line, 0, 8)),
                            fromhex(Last(line, 8)))
    IN  Decode(strip(readline(text, p)))

RECURSIVE GeckoCode_from_text_loop(_, _, _)
\* the loop of GeckoCode.from_text: returns [exc, code]
GeckoCode_from_text_loop(c, text, p) ==
    LET Body(r) ==
            IF r.exc # "" THEN [ exc |-> r.exc, code |-> c ]
            ELSE IF r.cmd.kind = "EXIT"
            THEN [ exc |-> "", code |-> GeckoCode_add_child(c, r.cmd) ]
            ELSE GeckoCode_from_text_loop(GeckoCode_add_child(c, r.cmd), text, r.pos)
    IN  IF p < Len(text) THEN Body(str_to_geckocommand(text, p))
        ELSE [ exc |-> "", code |-> c ]

\* GeckoCode.from_text(f, name, author, desc, enabled) when
\* GeckoCode._TmpNameCounter is n
GeckoCode_from_text(text, name, author, desc, enabled, n) ==
    GeckoCode_from_text_loop(
        GeckoCode(IF name = None THEN TmpName(n) ELSE name, author, desc, enabled),
        text, 0)

\* ------------------------------------------------------------------------
\* Text encoder.  A call returns [exc, text].
\* ------------------------------------------------------------------------

Text(t) == [ exc |-> "", text |-> t ]

FailedText(exc) == [ exc |-> exc, text |-> <<>> ]

RECURSIVE nibbles_text(_, _)
\* the loop of GeckoCommand.as_text over the 4-byte groups of packet, from group i
nibbles_text(packet, i) ==
    IF 4 * i >= Len(packet) THEN <<>>
    ELSE (IF i = 0 THEN <<>> ELSE IF i % 2 = 1 THEN << " " >> ELSE << "\n" >>)
         \o hex(Slice(packet, 4 * i, 4 * i + 4))
         \o nibbles_text(packet, i + 1)

\* GeckoCommand.as_text
GeckoCommand_as_text(cmd) ==
    LET Body(packet) ==
            IF packet.exc # "" THEN FailedText(packet.exc)
            ELSE Text(upper(nibbles_text(packet.bytes, 0)))
    IN  Body(as_bytes(cmd))

RECURSIVE GeckoCode_as_text_loop(_, _)
GeckoCode_as_text_loop(commands, data) ==
    LET Body(t) ==
            IF t.exc # "" THEN t
            ELSE GeckoCode_as_text_loop(Tail(commands), data \o t.text \o << "\n" >>)
    IN  IF Len(commands) = 0 THEN Text(data) ELSE Body(GeckoCommand_as_text(commands[1]))

\* GeckoCode.as_text
GeckoCode_as_text(c) ==
    LET Body(data) == IF data.exc # "" THEN data ELSE Text(rstrip(data.text))
    IN  Body(GeckoCode_as_text_loop(c.commands, <<>>))

\* ------------------------------------------------------------------------
\* GeckoCodeTable.as_codelist.  A call returns [exc, text].
\* ------------------------------------------------------------------------

\* code.is_preapplicable(): GeckoCode defines no such method, the attribute
\* lookup raises AttributeError
GeckoCode_is_preapplicable(c) == [ exc |-> "AttributeError", value |-> TRUE ]

\* f" [{code.author}]" if code.author else ""
AuthorTag(c) ==
    IF c.author = None \/ c.author = <<>> THEN <<>>
    ELSE << " ", "[" >> \o c.author \o << "]" >>

\* " " + GeckoCodeTable.VolatileToken if not code.is_preapplicable() else ""
TokenTag(pre) == IF pre.value THEN <<>> ELSE << " " >> \o VolatileToken

RECURSIVE as_codelist_dolphin(_, _, _)
\* the loop of the DOLPHIN branch over the codes, then its return
as_codelist_dolphin(table, codelist, enableds) ==
    LET Body(c, pre, t) ==
            LET desc == IF c.desc = None \/ c.desc = <<>> THEN << "*", "\n" >>
                        ELSE << "*" >> \o replace(c.desc, "\n", << "\n", "*" >>) \o << "\n" >>
            IN  IF pre.exc # "" THEN FailedText(pre.exc)
                ELSE IF t.exc # "" THEN t
                ELSE as_codelist_dolphin(
                         Tail(table),
                         codelist \o << "$" >> \o c.name \o AuthorTag(c) \o TokenTag(pre)
                                  \o << "\n" >> \o t.text \o << "\n" >> \o desc,
                         IF c.enabled THEN enableds \o << "$" >> \o c.name \o << "\n" >>
                         ELSE enableds)
    IN  IF Len(table) = 0 THEN Text(codelist \o rstrip(enableds))
        ELSE Body(table[1], GeckoCode_is_preapplicable(table[1]), GeckoCode_as_text(table[1]))

RECURSIVE as_codelist_ocarina(_, _)
\* the loop of the OCARINA branch over the codes, then its return
as_codelist_ocarina(table, codelist) ==
    LET Body(c, pre, t) ==
            LET desc == IF c.desc = None \/ c.desc = <<>> THEN <<>> ELSE c.desc \o << "\n" >>
            IN  IF pre.exc # "" THEN FailedText(pre.exc)
                ELSE IF t.exc # "" THEN t
                ELSE as_codelist_ocarina(
                         Tail(table),
                         codelist \o c.name \o AuthorTag(c) \o TokenTag(pre)
                                  \o << "\n", "*", " " >>
                                  \o replace(t.text, "\n", << "\n", "*", " " >>)
                                  \o << "\n" >> \o desc \o << "\n" >>)
    IN  IF Len(table) = 0 THEN Text(rstrip(codelist))
        ELSE Body(table[1], GeckoCode_is_preapplicable(table[1]), GeckoCode_as_text(table[1]))

RECURSIVE as_codelist_raw(_, _)
\* the loop of the last branch over the codes, then its return
as_codelist_raw(table, codelist) ==
    LET Body(t) ==
            IF t.exc # "" THEN t
            ELSE as_codelist_raw(Tail(table), codelist \o t.text \o << "\n", "\n" >>)
    IN  IF Len(table) = 0 THEN Text(rstrip(codelist)) ELSE Body(GeckoCode_as_text(table[1]))

\* GeckoCodeTable.as_codelist(ty) of a table with the given gameID, gameName
as_codelist(table, id, name, t) ==
    CASE t = "DOLPHIN" ->
            as_codelist_dolphin(table, GeckoTag \o << "\n" >>, GeckoEnabledTag \o << "\n" >>)
      [] t = "OCARINA" ->
            as_codelist_ocarina(table, strip(id) \o << "\n" >> \o strip(name) \o << "\n", "\n" >>)
      [] OTHER -> as_codelist_raw(table, <<>>)

\* ------------------------------------------------------------------------
\* GeckoCodeTable.from_text.  The parse state is a record st: the cursor,
\* the locals name, author, desc, data, _gameInfoCollected, the table under
\* construction (codes, gameID, gameName), GeckoCode._TmpNameCounter, and the
\* exception that ended the call ("" while none did).
\* ------------------------------------------------------------------------

RECURSIVE enabled_names(_, _, _)
\* "while line.startswith("$"): enabledCodes.add(line[1:].strip()); line = ..."
enabled_names(text, p, names) ==
    LET Body(line) ==
            IF startswith(line, << "$" >>)
            THEN enabled_names(text, LineEnd(text, p), names \cup { strip(Tail(line)) })
            ELSE names
    IN  Body(strip(readline(text, p)))

RECURSIVE enabled_scan(_, _)
\* the first loop of the DOLPHIN mode: [found, names] for _foundEnabled, enabledCodes
enabled_scan(text, p) ==
    IF p >= Len(text) THEN [ found |-> FALSE, names |-> {} ]
    ELSE IF strip(readline(text, p)) = GeckoEnabledTag
    THEN [ found |-> TRUE, names |-> enabled_names(text, LineEnd(text, p), {}) ]
    ELSE enabled_scan(text, LineEnd(text, p))

\* sLine[::-1].find("[") + 1
BracketFromEnd(sLine) ==
    IF \E i \in 1..Len(sLine) : sLine[i] = "["
    THEN Len(sLine) + 1
           - (CHOOSE i \in 1..Len(sLine) :
                 sLine[i] = "[" /\ \A j \in (i + 1)..Len(sLine) : sLine[j] # "[")
    ELSE 0

\* sLine[-n+1:-1].strip() for n > 0
AuthorOf(sLine, n) ==
    strip(SubSeq(sLine, IF n = 1 THEN 1 ELSE Len(sLine) - n + 2, Len(sLine) - 1))

RECURSIVE lstrip_star(_)
\* s.lstrip("*")
lstrip_star(s) == IF Len(s) > 0 /\ s[1] = "*" THEN lstrip_star(Tail(s)) ELSE s

\* one pass of the DOLPHIN branch on the line read at st.pos
from_text_dolphin(st, line, sLine, p1, isPreApplicable, en) ==
    IF startswith(line, << "$" >>)
    THEN IF Len(st.data) > 0
         THEN \* GeckoCode.from_text(..., preapplicable=isPreApplicable): no such parameter
              [st EXCEPT !.pos = p1, !.exc = "TypeError"]
         ELSE LET Named(n) ==
                      IF n = 0
                      THEN [st EXCEPT !.pos = p1, !.name = Tail(sLine), !.author = None]
                      ELSE [st EXCEPT !.pos = p1,
                                      !.name = strip(SubSeq(sLine, 2, Len(sLine) - n)),
                                      !.author = AuthorOf(sLine, n)]
              IN  Named(BracketFromEnd(sLine))
    ELSE IF startswith(line, << "*" >>)
    THEN [st EXCEPT !.pos = p1, !.desc = Append(@, SubSeq(line, 2, Len(line) - 1))]
    ELSE IF isalnum(unspaced(sLine))
    THEN [st EXCEPT !.pos = p1, !.data = Append(@, sLine)]
    ELSE [st EXCEPT !.pos = p1]

RECURSIVE from_text_ocarina_code(_, _, _, _, _, _)
\* the inner loop of the OCARINA branch: the lines of one code
from_text_ocarina_code(st, text, isPreApplicable, firstPass, enabled, descReading) ==
    LET \* GeckoCode.from_text(...) returned r; then
        \* gct.add_child(code, preapplicable=isPreApplicable): no such parameter
        Add(r, p1) ==
            [st EXCEPT !.pos = p1, !.counter = @ + 1,
                       !.exc = IF r.exc # "" THEN r.exc ELSE "TypeError"]
        Body(sLine, p1) ==
            IF firstPass
            THEN from_text_ocarina_code([st EXCEPT !.pos = p1], text, isPreApplicable,
                                        FALSE, startswith(sLine, << "*" >>), descReading)
            ELSE IF Len(strip(lstrip_star(sLine))) = 17 /\ ~descReading
            THEN from_text_ocarina_code(
                     [st EXCEPT !.pos = p1, !.data = Append(@, strip(Tail(sLine)))],
                     text, isPreApplicable, FALSE, enabled, descReading)
            ELSE IF sLine # <<>>
            THEN from_text_ocarina_code(
                     [st EXCEPT !.pos = p1, !.desc = Append(@, sLine)],
                     text, isPreApplicable, FALSE, enabled, TRUE)
            ELSE Add(GeckoCode_from_text(join(<< "\n" >>, st.data), st.name, st.author,
                                         join(<< "\n" >>, st.desc), enabled, st.counter),
                     p1)
    IN  IF st.pos >= Len(text) THEN st
        ELSE Body(strip(readline(text, st.pos)), LineEnd(text, st.pos))

\* one pass of the OCARINA branch on the line read at st.pos
from_text_ocarina(st, text, line, sLine, p1, isPreApplicable) ==
    IF sLine = <<>>
    THEN [st EXCEPT !.pos = p1, !.name = <<>>, !.author = <<>>, !.desc = <<>>, !.data = <<>>]
    ELSE IF ~st.gameInfoCollected
    THEN [st EXCEPT !.gameID = strip(line),
                    !.gameName = strip(readline(text, p1)),
                    !.pos = LineEnd(text, p1),
                    !.gameInfoCollected = TRUE]
    ELSE LET Named(n) ==
                 IF n = 0
                 THEN [st EXCEPT !.pos = p1, !.name = sLine, !.author = None]
                 ELSE [st EXCEPT !.pos = p1,
                                 !.name = strip(SubSeq(sLine, 1, Len(sLine) - n)),
                                 !.author = AuthorOf(sLine, n)]
         IN  from_text_ocarina_code(Named(BracketFromEnd(sLine)), text, isPreApplicable,
                                    TRUE, FALSE, FALSE)

\* one pass of the last branch (mode RAW, or None) on the line read at st.pos
from_text_raw(st, text, sLine, p1) ==
    LET \* GeckoCode.from_text("\n".join(data).strip()) returned r
        Add(r) ==
            IF r.exc # ""
            THEN [st EXCEPT !.pos = p1, !.counter = @ + 1, !.exc = r.exc]
            ELSE [st EXCEPT !.pos = p1, !.data = <<>>, !.counter = @ + 1,
                            !.codes = GeckoCodeTable_add_child(@, r.code)]
        Body(data) ==
            IF p1 >= Len(text)
            THEN IF Len(data) > 0
                 THEN Add(GeckoCode_from_text(strip(join(<< "\n" >>, data)),
                                              None, None, None, TRUE, st.counter))
                 ELSE [st EXCEPT !.pos = p1, !.data = <<>>]
            ELSE [st EXCEPT !.pos = p1, !.data = data]
    IN  Body(IF sLine # <<>> THEN Append(st.data, sLine) ELSE <<>>)

RECURSIVE from_text_loop(_, _, _, _)
\* the main loop of GeckoCodeTable.from_text
from_text_loop(st, text, m, en) ==
    LET Pass(line, p1, sLine, isPreApplicable) ==
            CASE m = "DOLPHIN" ->
                    from_text_dolphin(st, line, sLine, p1, isPreApplicable, en)
              [] m = "OCARINA" ->
                    from_text_ocarina(st, text, line, sLine, p1, isPreApplicable)
              [] OTHER -> from_text_raw(st, text, sLine, p1)
        Stripped(line, stripped, isVolatile) ==
            Pass(line, LineEnd(text, st.pos),
                 IF isVolatile
                 THEN strip(SubSeq(stripped, 1, Len(stripped) - Len(VolatileToken)))
                 ELSE stripped,
                 ~isVolatile)
        Line(line, stripped) ==
            Stripped(line, stripped, endswith(lower(stripped), VolatileToken))
    IN  IF st.exc # "" \/ st.pos >= Len(text) THEN st
        ELSE from_text_loop(Line(readline(text, st.pos), strip(readline(text, st.pos))),
                            text, m, en)

\* the defaults of GeckoCodeTable.__init__
DefaultGameID == << "G", "E", "C", "K", "0", "1" >>

DefaultGameName == << "g", "e", "c", "k", "o", "c", "o", "d", "e", "-", "l", "i", "b", "s" >>

\* GeckoCodeTable.from_text(f) once the mode m is detected, when
\* GeckoCode._TmpNameCounter is n
from_text(text, m, n) ==
    from_text_loop(
        [ pos |-> 0, name |-> <<>>, author |-> <<>>, desc |-> <<>>, data |-> <<>>,
          gameInfoCollected |-> FALSE, codes |-> <<>>, gameID |-> DefaultGameID,
          gameName |-> DefaultGameName, counter |-> n, exc |-> "" ],
        text, m,
        IF m = "DOLPHIN" THEN enabled_scan(text, 0) ELSE [ found |-> FALSE, names |-> {} ])

\* ------------------------------------------------------------------------
\* Text inputs
\* ------------------------------------------------------------------------

\* the hex lines of a binary encoding, as documentation prints them
HexLines(b) == upper(nibbles_text(b, 0))

BlankLine == << "\n", "\n" >>

\* the hex lines of the codes of the textual inputs
CodeLines == { HexLines(b) : b \in Bodies(WellFormedCommands, MaxCmds) \ { <<>> } }

\* the hex lines of the one-command codes
CommandLines == { HexLines(b) : b \in WellFormedCommands }

\* raw codelists that conform: hex lines only, codes separated by a blank line
RawTexts ==
    CodeLines
    \cup { g \o << "\n" >> : g \in CommandLines }
    \cup { g1 \o BlankLine \o g2 : g1 \in CommandLines, g2 \in CommandLines }

\* the line "$A", the line "$B [[volatile]]"
NameLineA == << "$" >> \o NameA

NameLineB == << "$" >> \o NameB \o << " " >> \o VolatileToken

\* a Dolphin codelist of two codes: "$A" with the lines g1, "$B [[volatile]]"
\* with the lines g2, and only A listed under [Gecko_Enabled]
DolphinTwoCodes(g1, g2) ==
    GeckoTag \o << "\n" >> \o NameLineA \o << "\n" >> \o g1 \o << "\n", "*", "\n" >>
    \o NameLineB \o << "\n" >> \o g2 \o << "\n", "*", "\n" >>
    \o GeckoEnabledTag \o << "\n" >> \o NameLineA

\* Dolphin codelists that conform: the [Gecko] header, per code a "$Name"
\* line, hex lines and a "*description" line, then the [Gecko_Enabled] section
DolphinTexts ==
    { GeckoTag \o << "\n" >> \o GeckoEnabledTag }
    \cup { GeckoTag \o << "\n" >> \o NameLineA \o << "\n" >> \o g \o << "\n", "*", "\n" >>
             \o GeckoEnabledTag \o e :
           g \in CommandLines, e \in { <<>>, << "\n" >> \o NameLineA } }
    \cup { DolphinTwoCodes(g1, g2) : g1 \in CommandLines, g2 \in CommandLines }

\* "* " before every hex line of g
Starred(g) == << "*", " " >> \o replace(g, "\n", << "\n", "*", " " >>)

OcarinaHeader == DefaultGameID \o << "\n" >> \o DefaultGameName \o BlankLine

\* an Ocarina codelist of one code, "A" with the lines g, ended by the end
\* of the text
OcarinaOneCode(g) == OcarinaHeader \o NameA \o << "\n" >> \o Starred(g)

\* an Ocarina codelist of two codes: "A" ended by a blank line, then "B"
OcarinaTwoCodes(g1, g2) ==
    OcarinaHeader \o NameA \o << "\n" >> \o Starred(g1) \o BlankLine
    \o NameB \o << "\n" >> \o Starred(g2)

\* Ocarina codelists that conform: gameID, gameName, a blank line, per code
\* a name line and "* HEXLINE" lines, codes separated by a blank line
OcarinaTexts ==
    { DefaultGameID \o << "\n" >> \o DefaultGameName }
    \cup { OcarinaOneCode(g) : g \in CommandLines }
    \cup { OcarinaTwoCodes(g1, g2) : g1 \in CommandLines, g2 \in CommandLines }

\* other texts: no non-empty line, a padded header, near misses of the header
OtherTexts ==
    { <<>>,
      << "\n", "\n" >>,
      << " ", " ", "\n" >>,
      << " " >> \o GeckoTag \o << " ", "\n" >>,
      GeckoTag \o << "x" >>,
      << "\n" >> \o GeckoTag \o << "x", "\n" >> \o GeckoTag,
      << "a", "b", "c" >>,
      << "\n", "\t" >> \o DefaultGameID \o << "\n" >>,
      HexLines(ExitLine) }

\* the first line of GeckoCodeTable.as_text()
MagicLine == HexLines(Magic)

Line04001000 == HexLines(<< \h04, 0, \h10, 0, \h12, \h34, \h56, \h78 >>)

\* texts in the form of GeckoCodeTable.as_text(): the magic line, hex lines,
\* the Exit line; the same without the Exit line
ContainerTexts ==
    { MagicLine \o << "\n" >> \o Line04001000 \o << "\n" >> \o HexLines(ExitLine),
      MagicLine \o << "\n" >> \o Line04001000,
      MagicLine }

\* hex lines with a line whose opcode is no known tag (0x0A)
UndecodableTexts ==
    { Line04001000 \o << "\n" >> \o HexLines(<< \h0A, 0, 0, 0, 0, 0, 0, 0 >>),
      Line04001000 \o << "\n" >> \o HexLines(<< \h0A, 0, 0, 0, 0, 0, 0, 0 >>)
          \o << "\n" >> \o Line04001000,
      HexLines(<< \h0A, 0, 0, 0, 0, 0, 0, 0 >>) }

TextInputs ==
    RawTexts \cup DolphinTexts \cup OcarinaTexts \cup OtherTexts \cup ContainerTexts
    \cup UndecodableTexts

\* ------------------------------------------------------------------------
\* Text actions
\* ------------------------------------------------------------------------

\* GeckoCodeTable.from_text(input), up to "mode = detect_codelist_type(f)"
GeckoCodeTable_from_text ==
    /\ scn = "text"
    /\ pc = "start"
    /\ mode' = detect_codelist_type(input)
    /\ pc' = "from_text"
    /\ UNCHANGED <<scn, runVars, ioVars, tblVars, mapped, applyVars, cmdVars, flavour, gameID, gameName>>

\* the rest of GeckoCodeTable.from_text: the table is returned, or an
\* exception leaves the call
GeckoCodeTable_from_text_loop ==
    /\ pc = "from_text"
    /\ \E st \in { from_text(input, mode, TmpNameCounter) } :
           /\ st.exc # "NotModelled"
           /\ pos' = st.pos
           /\ TmpNameCounter' = st.counter
           /\ IF st.exc = ""
              THEN /\ codes' = st.codes
                   /\ gameID' = st.gameID
                   /\ gameName' = st.gameName
                   /\ pc' = "parsed"
              ELSE /\ pc' = st.exc
                   /\ UNCHANGED <<codes, gameID, gameName>>
    /\ UNCHANGED <<scn, runVars, input, out, code, mapped, applyVars, cmdVars, mode, flavour>>

\* gct.as_codelist(ty) on the parsed table
AsCodelist ==
    /\ pc = "parsed"
    /\ \E t \in GeckoTextType :
          /\ flavour' = t
          /\ out' = as_codelist(codes, gameID, gameName, t)
    /\ pc' = "listed"
    /\ UNCHANGED <<scn, runVars, input, pos, tblVars, mapped, applyVars, cmdVars, mode, gameID, gameName>>

\* ------------------------------------------------------------------------
\* "for code in table" run by several threads on one GeckoCodeTable
\* ------------------------------------------------------------------------

\* number of threads that traverse the table
MaxThreads == 2

Threads == 1..MaxThreads

NameC == << "C" >>

\* a thread that has not begun its "for" statement
IdleThread == [ pc |-> "start", loaded |-> 0, yielded |-> <<>> ]

TraverseTables ==
    { << CodeOf(NameA, <<>>) >>,
      << CodeOf(NameA, <<>>), CodeOf(NameB, <<>>) >> }

\* list.__getitem__(index) of Python: a negative index counts from the end
getitem(list, index) ==
    IF index >= 0 /\ index < Len(list) THEN [ exc |-> "", item |-> list[index + 1] ]
    ELSE IF index < 0 /\ index >= 0 - Len(list)
         THEN [ exc |-> "", item |-> list[Len(list) + index + 1] ]
         ELSE [ exc |-> "IndexError", item |-> GeckoCode(<<>>, None, None, TRUE) ]

\* GeckoCodeTable.__iter__: self._iterpos = 0, the cursor is the table's
GeckoCodeTable_iter ==
    /\ scn = "traverse"
    /\ \E t \in Threads :
          /\ threads[t].pc = "start"
          /\ iterpos' = 0
          /\ threads' = [ threads EXCEPT ![t].pc = "next" ]
    /\ UNCHANGED <<scn, pc, ioVars, tblVars, mapped, dol, status, cstatus, ki, counter, base, ret, cmdVars, txtVars, mapVars, heldNames>>

\* GeckoCodeTable.__next__, "self._iterpos += 1": the read of self._iterpos
GeckoCodeTable_next_load ==
    /\ scn = "traverse"
    /\ \E t \in Threads :
          /\ threads[t].pc = "next"
          /\ threads' = [ threads EXCEPT ![t].pc = "store", ![t].loaded = iterpos ]
    /\ UNCHANGED <<scn, pc, ioVars, tblVars, mapped, applyVars, cmdVars, txtVars, mapVars, heldNames>>

\* GeckoCodeTable.__next__, "self._iterpos += 1": the write of self._iterpos
GeckoCodeTable_next_store ==
    /\ scn = "traverse"
    /\ \E t \in Threads :
          /\ threads[t].pc = "store"
          /\ iterpos' = threads[t].loaded + 1
          /\ threads' = [ threads EXCEPT ![t].pc = "index" ]
    /\ UNCHANGED <<scn, pc, ioVars, tblVars, mapped, dol, status, cstatus, ki, counter, base, ret, cmdVars, txtVars, mapVars, heldNames>>

\* GeckoCodeTable.__next__, "return list(self._codes.values())[self._iterpos-1]":
\* the code is yielded to the loop, or IndexError becomes StopIteration
GeckoCodeTable_next_index ==
    /\ scn = "traverse"
    /\ \E t \in Threads :
          /\ threads[t].pc = "index"
          /\ LET r == getitem(codes, iterpos - 1)
             IN  threads' = IF r.exc = ""
                            THEN [ threads EXCEPT ![t].pc = "next",
                                                  ![t].yielded = Append(@, r.item) ]
                            ELSE [ threads EXCEPT ![t].pc = "done" ]
    /\ UNCHANGED <<scn, pc, ioVars, tblVars, mapped, applyVars, cmdVars, txtVars, mapVars, heldNames>>

InitTraverse ==
    /\ scn = "traverse"
    /\ input = <<>>
    /\ codes \in TraverseTables
    /\ mapped = {}

\* ------------------------------------------------------------------------
\* str(command) and GeckoCodeTable.print_map(buffer, indent, startindent)
\* ------------------------------------------------------------------------

\* f"{n:02X}"
X02(n) == upper(hex(<< n >>))

\* f"{n:08X}" of a 32-bit quantity held as four bytes
X08(w) == upper(hex(w))

\* " " * n
Spaces(n) == Repeated(" ", n)

\* "pointer address" if self._isPointer else "base address"
addrstr(cmd) ==
    IF cmd.isPointer
    THEN << "p", "o", "i", "n", "t", "e", "r", " ", "a", "d", "d", "r", "e", "s",
        "s" >>
    ELSE << "b", "a", "s", "e", " ", "a", "d", "d", "r", "e", "s", "s" >>

\* f"({intType:02X}) "
TypeTag(intType) == << "(" >> \o X02(intType) \o << ")", " " >>

\* Write32.__str__
Write32_str(cmd) ==
    TypeTag(intTypeOf(cmd))
    \o << "W", "r", "i", "t", "e", " ", "w", "o", "r", "d", " ", "0", "x" >>
    \o X08(cmd.value)
    \o << " ", "t", "o", " ", "0", "x" >>
    \o X08(Word(cmd.address))
    \o << " ", "+", " ", "t", "h", "e", " " >>
    \o addrstr(cmd)

\* Terminator.__str__: self[0] is value & 0xFFFF0000, self[1] is (value & 0xFFFF) << 16
Terminator_str(cmd) ==
    LET ba == << cmd.value[1], cmd.value[2], 0, 0 >>
        po == << cmd.value[3], cmd.value[4], 0, 0 >>
    IN  TypeTag(type_to_int("TERMINATOR"))
        \o << "C", "l", "e", "a", "r", " ", "t", "h", "e", " ", "c", "o", "d", "e",
        " ", "e", "x", "e", "c", "u", "t", "i", "o", "n", " ", "s", "t",
        "a", "t", "u", "s", "." >>
        \o (IF ba # << 0, 0, 0, 0 >>
            THEN << " ", "S", "e", "t", " ", "t", "h", "e", " ", "b", "a", "s", "e", " ",
        "a", "d", "d", "r", "e", "s", "s", " ", "t", "o", " " >>
                 \o X08(ba) \o << "." >>
            ELSE <<>>)
        \o (IF po # << 0, 0, 0, 0 >>
            THEN << " ", "S", "e", "t", " ", "t", "h", "e", " ", "p", "o", "i", "n", "t",
        "e", "r", " ", "a", "d", "d", "r", "e", "s", "s", " ", "t", "o",
        " " >>
                 \o X08(po) \o << "." >>
            ELSE <<>>)

\* Exit.__str__
Exit_str ==
    TypeTag(type_to_int("EXIT"))
    \o << "F", "l", "a", "g", " ", "t", "h", "e", " ", "e", "n", "d", " ", "o",
        "f", " ", "t", "h", "e", " ", "c", "o", "d", "e", "l", "i", "s",
        "t", ",", " ", "t", "h", "e", " ", "c", "o", "d", "e", "h", "a",
        "n", "d", "l", "e", "r", " ", "e", "x", "i", "t", "s" >>

RECURSIVE command_str(_, _, _)
RECURSIVE children_str(_, _, _)

\* "\n".join([" " * GeckoCommand._IndentionStart + str(child) for child in
\* self._children]) with GeckoCommand._IndentionStart = start
children_str(children, start, width) ==
    IF children = <<>> THEN <<>>
    ELSE Spaces(start) \o command_str(Head(children), start, width)
         \o (IF Len(children) > 1 THEN << "\n" >> ELSE <<>>)
         \o children_str(Tail(children), start, width)

\* IfEqual32.__str__ with GeckoCommand._IndentionStart = start and
\* GeckoCommand._IndentionWidth = width; _IndentionStart is start again on return
IfEqual32_str(cmd, start, width) ==
    LET childrenPrint ==
            IF Len(cmd.children) > 0
            THEN << "\n" >> \o children_str(cmd.children, start + width, width)
            ELSE <<>>
    IN  TypeTag(intTypeOf(cmd))
        \o (IF cmd.endif
            THEN << "(", "A", "p", "p", "l", "y", " ", "E", "n", "d", "i", "f", ")", " " >>
            ELSE <<>>)
        \o << "I", "f", " ", "t", "h", "e", " ", "w", "o", "r", "d", " ", "a", "t",
        " ", "a", "d", "d", "r", "e", "s", "s", " ", "(", "0", "x" >>
        \o X08(Word(cmd.address))
        \o << " ", "+", " ", "t", "h", "e", " " >>
        \o addrstr(cmd)
        \o << ")", " ", "i", "s", " ", "e", "q", "u", "a", "l", " ", "t", "o", " ",
        "0", "x" >>
        \o X08(cmd.value) \o << ":" >> \o childrenPrint

\* str(command) of the kinds that the printed tables hold
command_str(cmd, start, width) ==
    CASE cmd.kind = "WRITE_32" -> Write32_str(cmd)
      [] cmd.kind = "IF_EQ_32" -> IfEqual32_str(cmd, start, width)
      [] cmd.kind = "TERMINATOR" -> Terminator_str(cmd)
      [] cmd.kind = "EXIT" -> Exit_str
      [] OTHER -> << "NotModelled" >>

\* print(x): str(x) and a newline
println(s) == s \o << "\n" >>

RECURSIVE commands_map(_, _, _)
\* "for command in code: print(command)"
commands_map(commands, start, width) ==
    IF commands = <<>> THEN <<>>
    ELSE println(command_str(Head(commands), start, width))
         \o commands_map(Tail(commands), start, width)

RECURSIVE table_map(_, _, _)
\* "for code in self: for command in code: print(command)"
table_map(table, start, width) ==
    IF table = <<>> THEN <<>>
    ELSE commands_map(Head(table).commands, start, width)
         \o table_map(Tail(table), start, width)

\* the indent and startindent arguments of print_map
IndentArgs == { 2, 4 }

StartIndentArgs == { 0, 1 }

\* tables to print: a block with a nested block, plain commands, two codes
MapTables ==
    { << CodeOf(NameA, << Write32(W12345678, \h1000, FALSE) >>) >>,
      << CodeOf(NameA, << add_child(IfEqual32("IF_EQ_32", Word(1), \h1000, FALSE, FALSE),
                                    Write32(W12345678, \h1000, FALSE)),
                          Terminator(<< \h80, 0, \h80, 0 >>) >>) >>,
      << CodeOf(NameA, << add_child(add_child(IfEqual32("IF_EQ_32", Word(1), \h1000, FALSE, FALSE),
                                              add_child(IfEqual32("IF_EQ_32", Word(2), \h1000, TRUE, TRUE),
                                                        Write32(W12345678, \h1000, FALSE))),
                                    Write32(WDEADBEEF, \h1004, TRUE)),
                          Terminator(Word(0)) >>),
         CodeOf(NameB, << Write32(W12345678, \h1000, FALSE) >>) >>,
      <<>> }

\* GeckoCodeTable.print_map(buffer, indent, startindent): the commands are
\* printed by print(command), the Exit line by print(str(Exit()), file=buffer)
GeckoCodeTable_print_map ==
    /\ scn = "map"
    /\ pc = "start"
    /\ \E indent \in IndentArgs, startindent \in StartIndentArgs :
          LET prev == IndentionWidth
          IN  /\ stdout' = stdout \o table_map(codes, startindent, indent)
              /\ IndentionStart' = startindent
              /\ IndentionWidth' = prev
              /\ buffer' = buffer \o println(Exit_str)
              /\ indentArg' = indent
    /\ iterpos' = Len(codes) + 1
    /\ pc' = "mapped"
    /\ UNCHANGED <<scn, ioVars, tblVars, mapped, dol, status, cstatus, ki, counter, base, ret, cmdVars, txtVars, threads, heldNames>>

InitMap ==
    /\ scn = "map"
    /\ input = <<>>
    /\ codes \in MapTables
    /\ mapped = {}

\* ------------------------------------------------------------------------
\* GeckoCommand.str_to_geckocommand(f) on the hex lines of one command
\* ------------------------------------------------------------------------

\* the blocks whose hex lines are decoded
TextBlocks == BlockCommands \cup { IfLine \o Write32Line \o TerminatorLine }

\* hex lines of single commands; of blocks, the last line ending the text,
\* followed by a newline, followed by a newline and a further line
TextCommandInputs ==
    CommandLines
    \cup { HexLines(b) : b \in PointerCommands \cup TextBlocks \cup SingleLineCommands }
    \cup { HexLines(b) \o << "\n" >> : b \in TextBlocks }
    \cup { HexLines(b) \o << "\n" >> \o Line04001000 : b \in TextBlocks }

\* GeckoCommand.str_to_geckocommand(f) on a StringIO of input: the command
\* and f.tell(), or the exception
DecodeTextCommand ==
    /\ scn = "decodetext"
    /\ pc = "start"
    /\ \E r \in { str_to_geckocommand(input, 0) } :
          /\ r.exc # "NotModelled"
          /\ pos' = r.pos
          /\ command' = r.cmd
          /\ pc' = IF r.exc # "" THEN r.exc ELSE "text_command"
    /\ UNCHANGED <<scn, runVars, input, out, tblVars, mapped, applyVars, command2, txtVars>>

InitDecodeText ==
    /\ scn = "decodetext"
    /\ input \in TextCommandInputs
    /\ codes = <<>>
    /\ mapped = {}

\* ------------------------------------------------------------------------
\* GeckoCodeTable.add_child(code), GeckoCodeTable.remove_child(code)
\* ------------------------------------------------------------------------

\* the codes handed to add_child and remove_child: two codes named A
TableCodes ==
    { CodeOf(NameA, <<>>), CodeOf(NameA, << Write32(W12345678, \h1000, FALSE) >>),
      CodeOf(NameB, <<>>), CodeOf(NameC, <<>>) }

\* the names handed to remove_child
TableNames == { NameA, NameB }

\* table.add_child(c)
Table_add_child ==
    /\ scn = "table"
    /\ pc \in { "start", "added", "removed" }
    /\ \E c \in TableCodes :
          /\ codes' = GeckoCodeTable_add_child(codes, c)
          /\ code' = c
          /\ heldNames' = heldNames \cup { c.name }
    /\ pc' = "added"
    /\ UNCHANGED <<scn, ioVars, TmpNameCounter, mapped, applyVars, cmdVars, txtVars, threads, mapVars>>

\* table.remove_child(c) with a GeckoCode or a name: "if isinstance(code,
\* GeckoCode): self._codes.pop(code.name) else: self._codes.pop(code)"
Table_remove_child ==
    /\ scn = "table"
    /\ pc \in { "start", "added", "removed" }
    /\ \E c \in TableCodes \cup TableNames :
          LET name == IF c \in TableCodes THEN c.name ELSE c
              r == GeckoCodeTable_remove_child(codes, name)
          IN  /\ input' = name
              /\ code' = IF c \in TableCodes THEN c ELSE code
              /\ codes' = r.table
              /\ heldNames' = IF r.exc = "" THEN heldNames \ { name } ELSE heldNames
              /\ pc' = IF r.exc = "" THEN "removed" ELSE r.exc
    /\ UNCHANGED <<scn, pos, out, TmpNameCounter, mapped, applyVars, cmdVars, txtVars, threads, mapVars>>

InitTable ==
    /\ scn = "table"
    /\ input = <<>>
    /\ codes = <<>>
    /\ mapped = {}

InitBinary ==
    /\ scn = "binary"
    /\ input \in BinInputs
    /\ codes = <<>>
    /\ mapped = {}

InitApply ==
    /\ scn = "apply"
    /\ input = <<>>
    /\ codes \in ApplyTables
    /\ mapped \in MappedSets

InitConstruct ==
    /\ scn = "construct"
    /\ input = <<>>
    /\ codes = <<>>
    /\ mapped = {}

InitDecode ==
    /\ scn = "decode"
    /\ input \in CommandInputs
    /\ codes = <<>>
    /\ mapped = {}

InitBuild ==
    /\ scn = "build"
    /\ input = <<>>
    /\ codes = <<>>
    /\ mapped = {}

InitText ==
    /\ scn = "text"
    /\ input \in TextInputs
    /\ codes = <<>>
    /\ mapped = {}

Init ==
    /\ \/ InitBinary \/ InitApply \/ InitConstruct \/ InitDecode \/ InitBuild \/ InitText
       \/ InitTraverse \/ InitMap \/ InitDecodeText \/ InitTable
    /\ mode = ""
    /\ flavour = ""
    /\ gameID = DefaultGameID
    /\ gameName = DefaultGameName
    /\ command = NoCommand
    /\ command2 = NoCommand
    /\ pos = 0
    /\ pc = "start"
    /\ code = GeckoCode(<<>>, None, None, TRUE)
    /\ out = Bytes(<<>>)
    /\ TmpNameCounter = 0
    /\ dol = <<>>
    /\ status = FALSE
    /\ cstatus = FALSE
    /\ iterpos = 0
    /\ ki = 0
    /\ counter = 0
    /\ base = 0
    /\ ret = FALSE
    /\ threads = [ t \in Threads |-> IdleThread ]
    /\ stdout = <<>>
    /\ buffer = <<>>
    /\ IndentionWidth = 4
    /\ IndentionStart = 0
    /\ indentArg = 0
    /\ heldNames = {}

Next ==
    \/ GeckoCodeTable_from_bytes
    \/ GeckoCode_from_bytes
    \/ AsBytes
    \/ GeckoCodeTable_apply
    \/ GeckoCodeTable_next
    \/ GeckoCode_apply
    \/ Write8_apply
    \/ Write8_apply_loop
    \/ GeckoCode_apply_return
    \/ Construct
    \/ DecodeCommand
    \/ Command_as_bytes
    \/ Redecode
    \/ Command_add_child
    \/ Code_init
    \/ Code_add_child
    \/ Code_iadd
    \/ Code_setitem
    \/ GeckoCodeTable_from_text
    \/ GeckoCodeTable_from_text_loop
    \/ AsCodelist
    \/ GeckoCodeTable_iter
    \/ GeckoCodeTable_next_load
    \/ GeckoCodeTable_next_store
    \/ GeckoCodeTable_next_index
    \/ GeckoCodeTable_print_map
    \/ DecodeTextCommand
    \/ Table_add_child
    \/ Table_remove_child

Spec == Init /\ [][Next]_vars

\* a specification under which a started write loop keeps being executed
LiveSpec == Spec /\ WF_vars(Write8_apply_loop)

\* ------------------------------------------------------------------------
\* Properties
\* ------------------------------------------------------------------------

\* C1: for every well-formed binary codelist b (magic, commands that conform
\* to the taxonomy, the Exit line), GeckoCodeTable.from_bytes(b).as_bytes()
\* returns b.
C1_BinaryRoundTrip ==
    (scn = "binary" /\ pc = "encoded" /\ input \in WellFormedBinInputs)
        => (out.exc = "" /\ out.bytes = input)

\* C3: GeckoCode.from_bytes is bounded by its input: at every point of the
\* decode loop, and when it has returned, the commands collected number at
\* most (input length / 8), also when the data ends without an Exit line.
C3_DecodeBounded ==
    (scn = "binary" /\ pc \in { "from_bytes", "decoded" })
        => Len(code.commands) * 8 <= Len(input)

\* the command is pre-applicable and its address is mapped in the image
WouldApply(c) == can_preprocess(c.kind) /\ Or80(c.address) \in mapped

\* the table of the scenario: only WRITE_32 value=0x12345678 addr=0x1000
Write32Table == << CodeOf(NameA, << Write32(W12345678, \h1000, FALSE) >>) >>

Addr80001000 == << \h80, 0, \h10, 0 >>

\* C4: GeckoCodeTable.apply returns the OR of the per-command results over
\* every code (true iff some command was applied, false for an empty table);
\* for the table holding only WRITE_32 0x12345678 at 0x1000 and an image that
\* maps 0x80001000, exactly one write, of 12 34 56 78, is issued after a seek
\* to 0x80001000, and the result is true.
C4_ApplyIsOr ==
    (scn = "apply" /\ pc = "applied")
        => /\ status = (\E i \in 1..Len(codes) : \E k \in 1..Len(codes[i].commands) :
                            WouldApply(codes[i].commands[k]))
           /\ (codes = Write32Table /\ Addr80001000 \in mapped)
                 => /\ status
                    /\ dol = << is_mapped(Addr80001000), seek(Addr80001000),
                                write(<< \h12, \h34, \h56, \h78 >>) >>

C4_Witness ==
    /\ scn = "apply" /\ pc = "applied"
    /\ codes = Write32Table /\ Addr80001000 \in mapped
    /\ status

\* a command's apply has just returned: it is command ki - 1 of the running
\* code, its calls are the call log from base on, its result is ret
JustApplied == scn = "apply" /\ pc = "apply_code" /\ ki > 1

LastCommand == CurrentCode.commands[ki - 1]

LastCalls == SubSeq(dol, base + 1, Len(dol))

\* C5: when a command's apply contributes false (its kind is not one of the
\* six pre-applicable kinds, block kinds with pre-applicable children
\* included, or is_mapped(addr | 0x80000000) is false), it issues no seek,
\* write or insert_branch on the image.
C5_SkippedLeavesImage ==
    JustApplied
        => /\ ret = WouldApply(LastCommand)
           /\ ~ret => \A j \in 1..Len(LastCalls) : LastCalls[j].op = "is_mapped"

C5_Witness ==
    /\ JustApplied
    /\ LastCommand.kind = "IF_EQ_32"
    /\ Len(LastCommand.children) > 0
    /\ WouldApply(LastCommand.children[1])
    /\ ~ret

\* the calls of kind op among calls
CallsOf(calls, op) == SelectSeq(calls, LAMBDA c : c.op = op)

\* C6: WriteSerial.apply on a mapped address performs exactly repeat + 1
\* write iterations (exactly one with repeat = 0).
C6_SerialIterations ==
    (JustApplied /\ LastCommand.kind = "WRITE_SERIAL" /\ WouldApply(LastCommand))
        => Len(CallsOf(LastCalls, "write")) + Len(CallsOf(LastCalls, "write_int"))
              = LastCommand.repeat + 1

\* the state part of C7: the calls of a completed Write8.apply / Write16.apply
C7_Writes ==
    (JustApplied /\ LastCommand.kind \in { "WRITE_8", "WRITE_16" } /\ WouldApply(LastCommand))
        => /\ ret
           /\ Len(LastCommand.value) = (IF LastCommand.kind = "WRITE_8" THEN 1 ELSE 2)
           /\ LastCalls = << is_mapped(Or80(LastCommand.address)),
                             seek(Or80(LastCommand.address)) >>
                          \o Repeated(write(LastCommand.value), LastCommand.repeat + 1)

\* C7: Write8.apply and Write16.apply on a mapped address seek once to
\* addr | 0x80000000, then issue exactly repeat + 1 consecutive writes of the
\* value (1 byte, respectively 2 bytes big-endian) and return true; the loop
\* terminates.
C7_RepeatedWrites == [](C7_Writes) /\ ((pc = "write_loop") ~> (pc = "apply_code"))

C7_Witness ==
    /\ JustApplied
    /\ LastCommand.kind = "WRITE_16"
    /\ LastCommand.repeat = MaxRepeat
    /\ WouldApply(LastCommand)
    /\ Len(CallsOf(LastCalls, "write")) = MaxRepeat + 1

\* the flavour a conforming text is written in
FlavourOf(t) ==
    IF t \in DolphinTexts THEN "DOLPHIN" ELSE IF t \in OcarinaTexts THEN "OCARINA" ELSE "RAW"

\* C2: for each textual flavour T and every well-formed codelist text t of
\* that flavour, from_text(t) returns a table and as_codelist(T) of it
\* reproduces t up to surrounding whitespace (for DOLPHIN up to the length of
\* the emitted text).
C2_TextRoundTrip ==
    (scn = "text" /\ input \in RawTexts \cup DolphinTexts \cup OcarinaTexts)
        => /\ pc \in { "start", "from_text", "parsed", "listed" }
           /\ (pc = "listed" /\ flavour = FlavourOf(input))
                 => /\ out.exc = ""
                    /\ strip(out.text) =
                          (IF flavour = "DOLPHIN"
                           THEN Slice(strip(input), 0, Len(out.text))
                           ELSE strip(input))

\* the stripped lines of text that are not empty
NonEmptyLines(text) ==
    SelectSeq([i \in 1..Len(readlines(text, 0)) |-> strip(readlines(text, 0)[i])],
              LAMBDA l : l # <<>>)

\* C8: detect_codelist_type returns DOLPHIN iff the first non-empty stripped
\* line is "[Gecko]", OCARINA iff that line has length 6, and RAW in every
\* other case, input without a non-empty line included.
C8_DetectType ==
    (scn = "text" /\ pc # "start")
        => mode = (IF NonEmptyLines(input) # <<>> /\ NonEmptyLines(input)[1] = GeckoTag
                   THEN "DOLPHIN"
                   ELSE IF NonEmptyLines(input) # <<>> /\ Len(NonEmptyLines(input)[1]) = 6
                   THEN "OCARINA"
                   ELSE "RAW")

\* the line 04 12 34 56 DE AD BE EF
Line04123456 == << \h04, \h12, \h34, \h56, \hDE, \hAD, \hBE, \hEF >>

\* the command that line decodes to
Decoded04123456 ==
    /\ command.kind = "WRITE_32"
    /\ command.address = \h123456
    /\ command.value = << \hDE, \hAD, \hBE, \hEF >>
    /\ command.isPointer = FALSE

C10_WriteRoundTrip ==
    (scn = "construct" /\ pc = "command_again")
        => /\ Slice(out.bytes, 4, 6) = << command.repeat \div 256, command.repeat % 256 >>
           /\ command2.address = command.address
           /\ command2.repeat = command.repeat
           /\ command2.value = command.value

\* C11: the isPointer flag round-trips through the 0x10 bit of the opcode for
\* every kind that carries it, IF_*_32 and IF_*_16 included: a header whose
\* opcode has bit 0x10 set decodes to a command with isPointer true, and
\* as_bytes of that command sets bit 0x10 again.
C11_PointerRoundTrip ==
    (/\ scn = "decode"
     /\ pc \in { "command", "command_bytes" }
     /\ input[1] < \hF0
     /\ BitAnd(input[1], \h10) # 0)
        => /\ command.isPointer
           /\ pc = "command_bytes" => (out.exc = "" /\ BitAnd(out.bytes[1], \h10) # 0)

\* the command is a BRAINSLUG_SEARCH with a 16-byte pattern and two
\* WRITE_32 children
SearchWithTwoChildren ==
    /\ command.kind = "BRAINSLUG_SEARCH"
    /\ Len(command.value) = 16
    /\ Len(command.children) = 2
    /\ \A i \in 1..2 : command.children[i].kind = "WRITE_32"

\* C12: a BRAINSLUG_SEARCH with a 16-byte pattern and two WRITE_32 children,
\* followed by a TERMINATOR, round-trips: its encoding is the header, the
\* pattern and both children, in that order, with the terminator behind
\* them, and decoding the encoding gives back a search command with the same
\* pattern and the same two children.
C12_SearchRoundTrip ==
    (scn \in { "construct", "decode" } /\ SearchWithTwoChildren)
        => /\ pc = "command_bytes"
                => /\ out.exc = ""
                   /\ out.bytes =
                         << \hF6, 0, 0, 2,
                            command.searchRange[1] \div 256, command.searchRange[1] % 256,
                            command.searchRange[2] \div 256, command.searchRange[2] % 256 >>
                         \o command.value
                         \o Write32_as_bytes(command.children[1]).bytes
                         \o Write32_as_bytes(command.children[2]).bytes
                   /\ scn = "decode" => out.bytes \o TerminatorLine = input
           /\ pc = "command_again"
                => /\ command2.kind = "BRAINSLUG_SEARCH"
                   /\ command2.value = command.value
                   /\ command2.children = command.children
           /\ pc \in { "command", "command_bytes", "command_again" }

\* C13: every AsmInsert* command (ASM_INSERT, ASM_INSERT_L, ASM_INSERT_XOR)
\* whose raw blob length is a positive multiple of 8 can be built, by its
\* constructor and by the decoder, and the payload as_bytes produces for it
\* ends with 60 00 00 00.
C13_AsmNopTail ==
    (scn \in { "construct", "decode" })
        => /\ pc # "AttributeError"
           /\ (/\ pc = "command_bytes"
               /\ command.kind \in { "ASM_INSERT", "ASM_INSERT_L", "ASM_INSERT_XOR" }
               /\ Len(command.value) > 0
               /\ Len(command.value) % 8 = 0)
                 => (out.exc = "" /\ Last(out.bytes, 4) = << \h60, 0, 0, 0 >>)

\* the mask of a kind's address: 32-bit-aligned kinds, 16-bit-aligned kinds,
\* the others
AddressMask(kind) ==
    IF kind \in { "WRITE_32", "WRITE_BRANCH", "ASM_INSERT" } \cup If32Kinds THEN \h1FFFFFC
    ELSE IF kind \in { "WRITE_16" } \cup If16Kinds THEN \h1FFFFFE
    ELSE \h1FFFFFF

\* C14: after construction, explicit or by decode, a command's stored address
\* equals itself masked by its kind's mask (0x1FFFFFC for 32-bit-aligned
\* kinds, 0x1FFFFFE for 16-bit-aligned kinds, 0x1FFFFFF otherwise), so the
\* address apply uses is the address as_bytes emits.
C14_AddressMasked ==
    (scn \in { "construct", "decode" } /\ pc \in { "command", "command_bytes" })
        => /\ command.address = BitAnd(command.address, AddressMask(command.kind))
           /\ (pc = "command_bytes" /\ out.exc = "" /\ can_preprocess(command.kind))
                 => AddressOf(Slice(out.bytes, 0, 4)) = command.address

RECURSIVE Occurrences(_, _)
\* the number of places of s where t begins
Occurrences(s, t) ==
    IF Len(s) < Len(t) THEN 0
    ELSE (IF startswith(s, t) THEN 1 ELSE 0) + Occurrences(Tail(s), t)

\* C15: for a Dolphin codelist of two codes where only the second header
\* carries [[volatile]] and only the first code is listed under
\* [Gecko_Enabled], from_text returns a table of two codes, the first enabled
\* and the second not, and as_codelist(DOLPHIN) of it emits the [[volatile]]
\* marker on the second code's header and nowhere else.
C15_VolatileDolphin ==
    (/\ scn = "text"
     /\ pc \notin { "start", "from_text" }
     /\ \E g1 \in CommandLines, g2 \in CommandLines : input = DolphinTwoCodes(g1, g2))
        => /\ pc \in { "parsed", "listed" }
           /\ Len(codes) = 2
           /\ codes[1].name = NameA /\ codes[1].enabled
           /\ codes[2].name = NameB /\ ~codes[2].enabled
           /\ (pc = "listed" /\ flavour = "DOLPHIN")
                 => /\ out.exc = ""
                    /\ Occurrences(out.text, VolatileToken) = 1
                    /\ Occurrences(out.text, NameLineB \o << "\n" >>) = 1

\* the commands the hex lines g stand for
CommandsOf(g) == GeckoCode_from_text(g, NameA, None, None, TRUE, 0).code.commands

\* C16: in an Ocarina code block every '*'-prefixed line after the
\* "Name [Author]" header whose hex part has 17 characters is a hex data line
\* of the code, the first line after the header included, and the block is
\* added to the table whether a blank line or the end of the input ends it.
C16_OcarinaBlocks ==
    (scn = "text" /\ pc \notin { "start", "from_text" })
        => \A g \in CommandLines :
              /\ input = OcarinaOneCode(g)
                    => /\ pc \in { "parsed", "listed" }
                       /\ Len(codes) = 1
                       /\ codes[1].name = NameA
                       /\ codes[1].commands = CommandsOf(g)
              /\ \A g2 \in CommandLines :
                    input = OcarinaTwoCodes(g, g2)
                       => /\ pc \in { "parsed", "listed" }
                          /\ Len(codes) = 2
                          /\ codes[1].name = NameA /\ codes[1].commands = CommandsOf(g)
                          /\ codes[2].name = NameB /\ codes[2].commands = CommandsOf(g2)

\* C17: the container decoder fails with the magic-mismatch error (the failed
\* assertion of from_bytes), and returns no table, whenever the binary input
\* does not begin with 00 D0 C0 DE 00 D0 C0 DE or the textual input does not
\* begin with the line "00D0C0DE 00D0C0DE"; a magic at the head of the input
\* is never decoded as a command.
C17_MagicRequired ==
    /\ (scn = "binary" /\ pc # "start" /\ Read(input, 0, 8) # Magic)
          => (pc = "AssertionError" /\ codes = <<>>)
    /\ (scn = "text" /\ pc \notin { "start", "from_text" } /\ ~startswith(input, MagicLine))
          => (pc \notin { "parsed", "listed" } /\ codes = <<>>)
    /\ (scn = "text" /\ pc \in { "parsed", "listed" } /\ startswith(input, MagicLine))
          => \A i \in 1..Len(codes) :
                Len(codes[i].commands) < Len(NonEmptyLines(input))

\* C18: when a command cannot be decoded (its opcode is no known tag after
\* masking), from_bytes and from_text both stop at that command and return
\* the codelist of the commands decoded before it, in order; the error does
\* not reach the caller.
C18_StopAtUndecodable ==
    /\ (scn = "binary" /\ Read(input, 0, 8) = Magic)
          => pc \in { "start", "from_bytes", "decoded", "encoded" }
    /\ (scn = "text" /\ input \in UndecodableTexts /\ pc \notin { "start", "from_text" })
          => /\ pc \in { "parsed", "listed" }
             /\ Len(codes) = 1
             /\ codes[1].commands =
                   (IF startswith(input, Line04001000)
                    THEN << Write32(W12345678, \h1000, FALSE) >>
                    ELSE <<>>)

\* C19: after any sequence of GeckoCode operations (from_bytes, from_text,
\* add_child, +=, item assignment) the command sequence of the code holds no
\* command of kind EXIT.
C19_NoExitInCode ==
    /\ \A k \in 1..Len(code.commands) : code.commands[k].kind # "EXIT"
    /\ (scn \in { "binary", "text" })
          => \A i \in 1..Len(codes) : \A k \in 1..Len(codes[i].commands) :
                codes[i].commands[k].kind # "EXIT"

\* s without its element j
Without(s, j) == SubSeq(s, 1, j - 1) \o SubSeq(s, j + 1, Len(s))

\* C20: GeckoCode.add_child preserves insertion order, and when the last
\* command of the sequence is an Exit, add_child of a command that is not an
\* Exit places it before that Exit, so the Exit stays last.
C20_ExitStaysLast ==
    [][ (scn = "build" /\ Len(code'.commands) = Len(code.commands) + 1)
            => \E j \in 1..Len(code'.commands) :
                  /\ Without(code'.commands, j) = code.commands
                  /\ (/\ code.commands # <<>>
                      /\ code.commands[Len(code.commands)].kind = "EXIT"
                      /\ code'.commands[j].kind # "EXIT")
                        => code'.commands[Len(code'.commands)].kind = "EXIT" ]_vars

\* C21: when several threads run "for code in table" on one unmodified table
\* with their steps interleaved, every traversal that has ended was yielded
\* every code of the table exactly once, in insertion order.
C21_ConcurrentTraversal ==
    \A t \in Threads : threads[t].pc = "done" => threads[t].yielded = codes

\* C22: for every command c that as_bytes encodes, virtual_length(c) is its
\* length in 8-byte lines, payload and children included:
\* virtual_length(c) * 8 = len(c.as_bytes()).
C22_VirtualLength ==
    (pc = "command_bytes" /\ out.exc = "")
        => virtual_length(command) * 8 = Len(out.bytes)

\* C23: print_map(buffer=B) writes the whole map to B, one description line
\* per command of every code in order with the children of a block indented
\* beneath it, then the Exit line, and writes nothing to any other stream.
C23_MapInBuffer ==
    pc = "mapped"
        => /\ buffer = table_map(codes, IndentionStart, indentArg) \o println(Exit_str)
           /\ stdout = <<>>

IsBlock(kind) == kind \in If32Kinds \cup If16Kinds \cup { "BRAINSLUG_SEARCH" }

RECURSIVE HoldsTerminator(_)
\* a Terminator or an Exit is a child of cmd at some depth
HoldsTerminator(cmd) ==
    \E i \in 1..Len(cmd.children) :
        \/ cmd.children[i].kind \in { "TERMINATOR", "EXIT" }
        \/ HoldsTerminator(cmd.children[i])

RECURSIVE FirstTerminator(_, _)
\* the offset of the first line at or after offset p whose opcode is
\* TERMINATOR or EXIT, the length of the data when there is none
FirstTerminator(data, p) ==
    IF p >= Len(data) THEN Len(data)
    ELSE IF BitAnd(data[p + 1], \hFE) \in { \hE0, \hF0 } THEN p
    ELSE FirstTerminator(data, p + 8)

\* the header line of a block and, for BRAINSLUG_SEARCH, its pattern
HeaderLen(cmd) == IF cmd.kind = "BRAINSLUG_SEARCH" THEN 8 + Len(cmd.value) ELSE 8

\* C24: a decoded block holds the commands that precede the next TERMINATOR
\* or EXIT line, the cursor is left at the first byte of that line, no
\* Terminator or Exit is a child at any depth, and in a decoded code the
\* Terminator follows the block as a sibling at the top level.
C24_PeekTerminator ==
    /\ (scn = "decode" /\ pc = "command" /\ IsBlock(command.kind))
          => /\ pos = FirstTerminator(input, 8)
             /\ ~HoldsTerminator(command)
             /\ (Len(command.children) = 0) = (pos <= HeaderLen(command))
    /\ (scn = "binary" /\ pc = "decoded")
          => \A i \in 1..Len(code.commands) :
                /\ ~HoldsTerminator(code.commands[i])
                /\ (IsBlock(code.commands[i].kind) /\ i < Len(code.commands))
                      => code.commands[i + 1].kind = "TERMINATOR"

RECURSIVE LinesBytes(_, _)
\* the bytes that the hex lines of a text denote, from the line at offset p
LinesBytes(text, p) ==
    IF p >= Len(text) THEN <<>>
    ELSE fromhex(unspaced(readline(text, p))).bytes \o LinesBytes(text, LineEnd(text, p))

BytesOf(text) == LinesBytes(text, 0)

\* the hex lines of a text begin with the header of a block
IsBlockText(text) ==
    /\ Len(BytesOf(text)) >= 8
    /\ IsBlock(int_to_type(BitAnd(BytesOf(text)[1], \hFE)))

\* the offset in the text of the line that holds byte offset p: a line is two
\* words of 8 digits, a space and a newline
LineOffset(p) == (p \div 8) * 18

\* C25: str_to_geckocommand decodes a block of hex lines with the cursor left
\* at the first character of the TERMINATOR or EXIT line that ends it,
\* whether that line ends the text or a newline and further lines follow, and
\* with no Terminator or Exit among the children.
C25_TextPeekTerminator ==
    (scn = "decodetext" /\ pc # "start" /\ IsBlockText(input))
        => /\ pc = "text_command"
           /\ pos = LineOffset(FirstTerminator(BytesOf(input), 8))
           /\ ~HoldsTerminator(command)

\* the length of the encoding of the command at the head of data: one line
\* for a single-line kind, the header line and the payload padded to whole
\* lines for a multiline kind, the lines up to the closing line for a block
EncodedLength(data) ==
    LET kind == int_to_type(BitAnd(data[1], \hFE))
        size == SizeOf(Read(data, 4, 4))
    IN  CASE kind = "WRITE_STR" -> 8 + ((size + 7) \div 8) * 8
          [] kind = "WRITE_SERIAL" -> 16
          [] kind = "ASM_INSERT" -> 8 + size * 8
          [] IsBlock(kind) -> FirstTerminator(data, 8)
          [] OTHER -> 8

\* C26: when bytes_to_geckocommand returns a command the cursor has advanced
\* by the length of its encoding, 8 bytes for a single-line kind and 8 bytes
\* plus the padded payload for a multiline kind, and the decode loop reads
\* every command from an 8-byte line boundary.
C26_CursorAdvance ==
    /\ (scn = "decode" /\ pc = "command") => pos = EncodedLength(input)
    /\ (scn = "binary" /\ pc = "from_bytes") => pos % 8 = 0

\* C27: for the hex lines of every well-formed command encoding b,
\* str_to_geckocommand returns a command of the same kind and field values
\* as bytes_to_geckocommand(b), the two-line WRITE_SERIAL included.
C27_TextCodecSymmetric ==
    (scn = "decodetext" /\ pc # "start" /\ input \in CommandLines)
        => /\ pc = "text_command"
           /\ command = bytes_to_geckocommand(BytesOf(input), 0).cmd

\* the names of the codes of a table, in order
NamesOf(table) == [ i \in 1..Len(table) |-> table[i].name ]

\* the code of the table that holds the name
Holder(table, name) == CHOOSE c \in { table[i] : i \in 1..Len(table) } : c.name = name

\* C28: the table is keyed by name.  add_child of a code whose name the table
\* holds replaces that code at its position, any other name is appended;
\* remove_child removes the code that holds the name and leaves the others
\* in order; the number of codes is always the number of names added and
\* not removed.
C28_KeyedByName ==
    [][ scn = "table" =>
          /\ Len(codes') = Cardinality(heldNames')
          /\ pc' = "added" =>
                /\ NamesOf(codes') =
                      IF \E i \in 1..Len(codes) : codes[i].name = code'.name
                      THEN NamesOf(codes)
                      ELSE Append(NamesOf(codes), code'.name)
                /\ \A i \in 1..Len(codes') :
                      codes'[i] = IF codes'[i].name = code'.name THEN code'
                                  ELSE Holder(codes, codes'[i].name)
          /\ pc' = "removed" =>
                /\ \E i \in 1..Len(codes) : codes[i].name = input'
                /\ NamesOf(codes') = SelectSeq(NamesOf(codes), LAMBDA n : n # input')
                /\ \A i \in 1..Len(codes') : codes'[i] = Holder(codes, codes'[i].name)
      ]_vars

\* add_child has just replaced the first of two codes
C28_Witness ==
    /\ scn = "table" /\ pc = "added"
    /\ Len(codes) = 2 /\ code = codes[1]
    /\ code.commands # <<>>

\* C29: in the calls of one command's apply, every address the image is
\* positioned at (seek, insert_branch) was confirmed before by an is_mapped
\* call of that apply which answered true, the address of every iteration
\* of WRITE_SERIAL included, and every write follows a seek.
C29_CheckedBeforeWrite ==
    JustApplied =>
        \A i \in 1..Len(LastCalls) :
            /\ LastCalls[i].op \in { "seek", "insert_branch" } =>
                  /\ LastCalls[i].addr \in mapped
                  /\ \E j \in 1..(i - 1) : LastCalls[j] = is_mapped(LastCalls[i].addr)
            /\ LastCalls[i].op \in { "write", "write_int" } =>
                  \E j \in 1..(i - 1) : LastCalls[j].op = "seek"

\* the calls of one command's apply on an image whose mapped addresses are m
CommandCalls(cmd, m) ==
    IF cmd.kind \in { "WRITE_8", "WRITE_16" }
    THEN IF Or80(cmd.address) \in m
         THEN << is_mapped(Or80(cmd.address)), seek(Or80(cmd.address)) >>
              \o Repeated(write(cmd.value), cmd.repeat + 1)
         ELSE << is_mapped(Or80(cmd.address)) >>
    ELSE apply(cmd, m).calls

\* the commands of a table in order, the codes' other fields left out
TableCommands(table) == Flatten([ i \in 1..Len(table) |-> table[i].commands ])

\* C30: the calls GeckoCodeTable.apply issues on the image and the status it
\* returns are determined by the commands of the table in order and by the
\* image alone, so two tables that differ only in their codes' enabled flags
\* issue the same calls and return the same status: the commands of codes
\* that are not enabled are applied too.
C30_FlagsIgnored ==
    (scn = "apply" /\ pc = "applied")
        => /\ dol = Flatten([ i \in 1..Len(TableCommands(codes)) |->
                                CommandCalls(TableCommands(codes)[i], mapped) ])
           /\ status = (\E i \in 1..Len(TableCommands(codes)) : WouldApply(TableCommands(codes)[i]))

C30_Witness ==
    /\ scn = "apply" /\ pc = "applied"
    /\ Len(codes) = 2
    /\ ~codes[1].enabled
    /\ codes[2].enabled
    /\ WouldApply(codes[1].commands[1])
    /\ ~WouldApply(codes[2].commands[1])
    /\ status
    /\ \E j \in 1..Len(dol) : dol[j].op = "seek"

====
